---- MODULE Spec2Model ----
(***************************************************************************)
(* Model of the data-quality correction engine of                          *)
(* backend/app/services/data_preprocessor.py (DataPreprocessor) with the   *)
(* detector of data_analyzer.py and the file store of file_handler.py.     *)
(*                                                                         *)
(* A Table (pandas DataFrame) is kept as the ordered list of its columns.  *)
(* Each column carries the facts the detectors and the correction routines *)
(* read from its cells: dtype, presence of null cells, the number of       *)
(* distinct values, the distribution shape (skew, range, behaviour under   *)
(* log1p / Box-Cox / clip), and the text properties the detectors test.    *)
(* The arithmetic on cell values that pandas/numpy/scipy perform is        *)
(* tabulated per shape (Skew100, Range1000, LogShape, BoxCoxShape,         *)
(* ClipShape): one shape stands for the columns that behave that way.      *)
(***************************************************************************)
EXTENDS Integers, Sequences, FiniteSets, TLC

\* ------------------------------------------------------------------------
\* Bounds of the model
\* ------------------------------------------------------------------------
MaxRuns == 2          \* correction runs (preprocess / auto_fix) per behaviour
MaxFaults == 1        \* library exceptions raised inside routines per behaviour
MaxCrashes == 1       \* process restarts in the middle of a run per behaviour
MaxDeletes == 1       \* delete_file calls per behaviour

\* ------------------------------------------------------------------------
\* Program constants
\* ------------------------------------------------------------------------
max_iterations == 5            \* fix_all_issues: max_iterations = 5
SKEWNESS_THRESHOLD100 == 100   \* settings.SKEWNESS_THRESHOLD = 1.0   (x100)
HIGH_CARDINALITY_THRESHOLD == 50
MinUniqueForSkew == 5          \* unique_count < 5 -> skip
MinRange1000 == 10             \* range < 0.01 -> skip               (x1000)
BoxCoxTrigger100 == 90         \* abs(skew_after_log) > 0.9          (x100)

\* ------------------------------------------------------------------------
\* Issue kinds (schemas.IssueType)
\* ------------------------------------------------------------------------
IssueType ==
    { "missing_values", "duplicates", "outliers", "imbalanced_data",
      "inconsistent_types", "categorical_inconsistencies", "invalid_ranges",
      "skewness", "high_cardinality", "constant_values",
      "correlated_features", "wrong_date_format", "encoding_issues",
      "mixed_units", "noisy_text" }

\* IssueType members for which _apply_action has no branch (falls to `else`)
NoRoutineKinds == { "invalid_ranges", "encoding_issues", "mixed_units" }

\* ------------------------------------------------------------------------
\* Generic sequence helpers
\* ------------------------------------------------------------------------
Range(s) == { s[i] : i \in DOMAIN s }

RECURSIVE SeqOfSet(_)
SeqOfSet(S) ==
    IF S = {} THEN << >>
    ELSE LET x == CHOOSE y \in S : TRUE IN << x >> \o SeqOfSet(S \ {x})

\* all orderings of a finite set, as sequences
Orderings(S) ==
    { s \in [1..Cardinality(S) -> S] : \A i, j \in 1..Cardinality(S) : i # j => s[i] # s[j] }

Last(s) == s[Len(s)]

\* ------------------------------------------------------------------------
\* Distribution shapes of numeric columns.
\*   Skew100[s]    abs(df[col].skew()) * 100
\*   Range1000[s]  (max - min) * 1000, capped at 1000
\*   LogShape[s]   the shape of np.log1p(col) (shifted when min <= 0)
\*   BoxCoxShape[s] the shape of scipy.stats.boxcox(col)[0], "raise" when
\*                 boxcox raises
\*   ClipShape[s]  the shape after clip(Q1 - 1.5 IQR, Q3 + 1.5 IQR)
\* ------------------------------------------------------------------------
Shapes == { "sym", "right", "left", "leftlog", "heavy", "heavy1", "steep", "stub",
            "stub1", "narrow", "flatlog", "tiny", "spike" }

Skew100 ==
    [ s \in Shapes |->
        CASE s = "sym"     -> 10
          [] s = "right"   -> 200
          [] s = "left"    -> 200
          [] s = "leftlog" -> 320
          [] s = "heavy"   -> 400
          [] s = "heavy1"  -> 300
          [] s = "steep"   -> 600
          [] s = "stub"    -> 400
          [] s = "stub1"   -> 280
          [] s = "narrow"  -> 250
          [] s = "flatlog" -> 240
          [] s = "tiny"    -> 300
          [] s = "spike"   -> 500 ]

Range1000 ==
    [ s \in Shapes |->
        CASE s = "narrow"  -> 20
          [] s = "flatlog" -> 0
          [] s = "tiny"    -> 5
          [] OTHER         -> 1000 ]

LogShape ==
    [ s \in Shapes |->
        CASE s = "sym"     -> "left"
          [] s = "right"   -> "sym"
          [] s = "left"    -> "leftlog"
          [] s = "leftlog" -> "leftlog"
          [] s = "heavy"   -> "heavy1"
          [] s = "heavy1"  -> "right"
          [] s = "steep"   -> "stub"
          [] s = "stub"    -> "stub1"
          [] s = "stub1"   -> "heavy1"
          [] s = "narrow"  -> "flatlog"
          [] s = "flatlog" -> "flatlog"
          [] s = "tiny"    -> "flatlog"
          [] s = "spike"   -> "right" ]

BoxCoxShape ==
    [ s \in Shapes |->
        CASE s = "heavy1"  -> "sym"
          [] s = "right"   -> "sym"
          [] OTHER         -> "raise" ]

ClipShape ==
    [ s \in Shapes |->
        CASE s = "spike"   -> "sym"
          [] OTHER         -> s ]

\* ------------------------------------------------------------------------
\* Columns and Tables
\* ------------------------------------------------------------------------
ColNames == { "a", "b", "t", "zz" }

\* A column of a DataFrame.
\*   dtype    "num" (np.number) or "obj" (object)
\*   nulls    some cell is NaN
\*   nanstr   some cell is the string "nan" (astype(str) of a NaN cell)
\*   shape    distribution shape of the numeric values (for an object column:
\*            of the values that parse as numbers)
\*   out      clip rounds after which _check_outliers stops flagging the column
\*   xf       number of value transforms kept by _handle_skewness
\*   uniq     df[col].nunique()
\*   sparse   nunique / len(df) > 0.5
\*   casedup  distinct values that agree after lower().strip()
\*   numfrac  share of non-null values pd.to_numeric parses:
\*            "none", "some" (<= 70%), "most" (> 70%), "all"
\*   datelike more than half of the sample matches a date pattern
\*   noisy    special-character ratio above 0.2
\*   imbal    2..9 classes and max/min class count above 3
\*   rare     some category occurs in under 1% of the rows and grouping the
\*            rare ones brings nunique to at most the threshold
Col(n) ==
    [ name |-> n, dtype |-> "num", nulls |-> FALSE, nanstr |-> FALSE,
      shape |-> "sym", out |-> 0, xf |-> 0, uniq |-> 6, sparse |-> FALSE,
      casedup |-> FALSE, numfrac |-> "all", datelike |-> FALSE,
      noisy |-> FALSE, imbal |-> FALSE, rare |-> FALSE ]

TextCol(n) == [ Col(n) EXCEPT !.dtype = "obj", !.numfrac = "none" ]

\* A Table: the columns in order, whether some row repeats an earlier row,
\* the pairs of numeric columns with abs(corr) > 0.9, and whether the rows were
\* resampled by _handle_imbalanced_data.
NoTable == [ cols |-> << >>, dups |-> FALSE, corr |-> {}, resampled |-> FALSE,
             exists |-> FALSE ]

MkTable(cs, d, cr) ==
    [ cols |-> cs, dups |-> d, corr |-> cr, resampled |-> FALSE, exists |-> TRUE ]

Names(df) == { df.cols[i].name : i \in DOMAIN df.cols }

NameList(df) == [ i \in DOMAIN df.cols |-> df.cols[i].name ]

HasCol(df, n) == n \in Names(df)

ColOf(df, n) == df.cols[CHOOSE i \in DOMAIN df.cols : df.cols[i].name = n]

\* df[col] = <new column>
SetCol(df, c) ==
    [ df EXCEPT !.cols = [ i \in DOMAIN df.cols |->
                             IF df.cols[i].name = c.name THEN c ELSE df.cols[i] ] ]

\* df.drop(columns=[...]) for names that may be absent (errors='ignore')
DropCols(df, S) ==
    [ df EXCEPT !.cols = SelectSeq(df.cols, LAMBDA c : c.name \notin S) ]

\* the sub-list of a list of names, order kept
Keep(names, P(_)) == SelectSeq(names, P)

\* ------------------------------------------------------------------------
\* IssueDetector (data_analyzer.py), one rule per kind.  Each rule returns the
\* list of Issues it appends; an Issue is [type, affected_columns].
\* ------------------------------------------------------------------------
Issue(k, names) == [ type |-> k, affected_columns |-> names ]

IssueIf(k, names) == IF names = << >> THEN << >> ELSE << Issue(k, names) >>

\* names of the columns of df, in column order, that satisfy P
ColsWhere(df, P(_)) ==
    LET sel == SelectSeq(df.cols, P) IN [ i \in DOMAIN sel |-> sel[i].name ]

IsNumeric(c) == c.dtype = "num"
IsObject(c) == c.dtype = "obj"

_check_outliers(df) ==
    IssueIf("outliers", ColsWhere(df, LAMBDA c : IsNumeric(c) /\ c.out > 0))

SkewFlagged(c) ==
    /\ IsNumeric(c)
    /\ ~ (c.uniq < MinUniqueForSkew)
    /\ ~ (Range1000[c.shape] < MinRange1000)
    /\ Skew100[c.shape] * 10 > SKEWNESS_THRESHOLD100 * 11

\* exclude_columns is the optional argument of the rule
_check_skewness(df, exclude_columns) ==
    IssueIf("skewness",
            ColsWhere(df, LAMBDA c : c.name \notin exclude_columns /\ SkewFlagged(c)))

_check_missing_values(df) ==
    IssueIf("missing_values", ColsWhere(df, LAMBDA c : c.nulls))

_check_duplicates(df) ==
    IF df.dups THEN << Issue("duplicates", NameList(df)) >> ELSE << >>

\* 0 < numeric_count < len(dropna): a "nan" string is non-null and not numeric
MixedTypes(c) ==
    /\ IsObject(c)
    /\ \/ c.numfrac \in { "some", "most" }
       \/ c.numfrac = "all" /\ c.nanstr

_check_data_types(df) ==
    IssueIf("inconsistent_types", ColsWhere(df, MixedTypes))

_check_categorical_issues(df) ==
    IssueIf("categorical_inconsistencies",
            ColsWhere(df, LAMBDA c : IsObject(c) /\ c.casedup))

_check_constant_features(df) ==
    IssueIf("constant_values", ColsWhere(df, LAMBDA c : c.uniq = 1))

\* variant: the pairs are not restricted to the columns of the table
CorrelatedNames_stale(df) == UNION df.corr

\* the columns of the pairs with abs(corr) > 0.9 among the numeric columns
CorrelatedNames(df) ==
    { n \in Names(df) :
        \E m \in Names(df) :
            /\ m # n
            /\ {n, m} \in df.corr
            /\ IsNumeric(ColOf(df, n))
            /\ IsNumeric(ColOf(df, m)) }

\* affected_columns = list(set(...)): the order is the set's iteration order,
\* which `order` supplies (an ordering of CorrelatedNames(df))
_check_correlated_features(df, order) ==
    IssueIf("correlated_features", order)

_check_high_cardinality(df) ==
    IssueIf("high_cardinality",
            ColsWhere(df, LAMBDA c : IsObject(c) /\ c.uniq > HIGH_CARDINALITY_THRESHOLD))

_check_date_formats(df) ==
    IssueIf("wrong_date_format", ColsWhere(df, LAMBDA c : IsObject(c) /\ c.datelike))

_check_text_issues(df) ==
    IssueIf("noisy_text", ColsWhere(df, LAMBDA c : IsObject(c) /\ c.noisy))

\* one Issue per imbalanced column
_check_imbalanced_data(df) ==
    LET cs == ColsWhere(df, LAMBDA c : IsObject(c) /\ c.imbal)
    IN  [ i \in DOMAIN cs |-> Issue("imbalanced_data", << cs[i] >>) ]

\* DataPreprocessor._analyze_dataframe: one detection pass.  The skewness rule
\* runs without exclusions and its Issue is filtered afterwards.
FilterSkewIssue(issues, exclude) ==
    LET f == [ i \in DOMAIN issues |->
                 [ issues[i] EXCEPT !.affected_columns =
                     SelectSeq(issues[i].affected_columns, LAMBDA n : n \notin exclude) ] ]
    IN  SelectSeq(f, LAMBDA x : Len(x.affected_columns) > 0)

_analyze_dataframe(df, exclude_skewness_columns, order) ==
       _check_outliers(df)
    \o FilterSkewIssue(_check_skewness(df, {}), exclude_skewness_columns)
    \o _check_missing_values(df)
    \o _check_duplicates(df)
    \o _check_data_types(df)
    \o _check_categorical_issues(df)
    \o _check_constant_features(df)
    \o _check_correlated_features(df, order)
    \o _check_high_cardinality(df)
    \o _check_date_formats(df)
    \o _check_text_issues(df)
    \o _check_imbalanced_data(df)

\* ------------------------------------------------------------------------
\* ActionRecommender
\* ------------------------------------------------------------------------
\* PreprocessAction; parameters is "none" for None, else the mapping's content:
\* "empty" for {}, "format" for {"format": "%Y-%m-%d"}
Action(k, cols, m, p) ==
    [ issue_type |-> k, columns |-> cols, method |-> m, parameters |-> p ]

NoAction == Action("none", << >>, "none", "none")

\* _get_recommended_action: NoAction stands for None
\* variant: action_map without its noisy_text entry
action_map_without_text(k) ==
    CASE k = "missing_values"              -> "mode"
      [] k = "duplicates"                  -> "remove"
      [] k = "outliers"                    -> "cap"
      [] k = "categorical_inconsistencies" -> "normalize"
      [] k = "wrong_date_format"           -> "convert"
      [] k = "constant_values"             -> "remove"
      [] k = "skewness"                    -> "box_cox"
      [] k = "high_cardinality"            -> "group_rare"
      [] k = "correlated_features"         -> "remove_correlated"
      [] k = "inconsistent_types"          -> "convert"
      [] OTHER                             -> "none"

\* the method of action_map[issue.type]; "none" for a kind without an entry
action_map(k) ==
    CASE k = "missing_values"              -> "mode"
      [] k = "duplicates"                  -> "remove"
      [] k = "outliers"                    -> "cap"
      [] k = "categorical_inconsistencies" -> "normalize"
      [] k = "wrong_date_format"           -> "convert"
      [] k = "noisy_text"                  -> "lowercase"
      [] k = "constant_values"             -> "remove"
      [] k = "skewness"                    -> "box_cox"
      [] k = "high_cardinality"            -> "group_rare"
      [] k = "correlated_features"         -> "remove_correlated"
      [] k = "inconsistent_types"          -> "convert"
      [] OTHER                             -> "none"

\* variant: imbalanced_data gets a recommended method like the other kinds
_get_recommended_action_all(issue) ==
    IF issue.type = "imbalanced_data"
    THEN Action(issue.type, issue.affected_columns, "smote", "empty")
    ELSE IF action_map(issue.type) = "none" THEN NoAction
    ELSE Action(issue.type, issue.affected_columns, action_map(issue.type),
                IF issue.type = "wrong_date_format" THEN "format" ELSE "empty")

_get_recommended_action(issue) ==
    LET k == issue.type
        method == action_map(k)
    IN  IF method = "none" THEN NoAction
        ELSE Action(k, issue.affected_columns, method,
                    IF k = "wrong_date_format" THEN "format" ELSE "empty")

\* ------------------------------------------------------------------------
\* ActionExecutor: method names
\* ------------------------------------------------------------------------
\* the method strings of the model
Methods == { "mode", "mean", "remove", "cap", "log_transform", "box_cox",
             "normalize", "convert", "extract", "lowercase", "group_rare",
             "remove_correlated", "smote", "clip" }

\* the substrings _normalize_method_name tests that occur in
\* method.lower().replace('_', ' ').replace('(', '').replace(')', '')
Substrings ==
    [ m \in Methods |->
        CASE m = "mode"              -> { "mode" }
          [] m = "mean"              -> { "mean" }
          [] m = "remove"            -> { "remove" }
          [] m = "cap"               -> { "cap" }
          [] m = "log_transform"     -> { "log" }
          [] m = "box_cox"           -> { "box", "cox" }
          [] m = "normalize"         -> { "normalize" }
          [] m = "convert"           -> { }
          [] m = "extract"           -> { "extract" }
          [] m = "lowercase"         -> { "lowercase" }
          [] m = "group_rare"        -> { "group", "rare" }
          [] m = "remove_correlated" -> { "remove" }
          [] m = "smote"             -> { "smote" }
          [] m = "clip"              -> { } ]

In(sub, m) == sub \in Substrings[m]

\* _normalize_method_name(method, issue_type)
_normalize_method_name(method, issue_type) ==
    CASE issue_type = "missing_values" ->
            IF In("mean", method) THEN "mean"
            ELSE IF In("median", method) THEN "median"
            ELSE IF In("mode", method) THEN "mode"
            ELSE IF In("forward", method) THEN "forward_fill"
            ELSE IF In("backward", method) THEN "backward_fill"
            ELSE IF In("drop", method) THEN "drop"
            ELSE method
      [] issue_type = "duplicates" -> "remove"
      [] issue_type = "outliers" ->
            IF In("cap", method) \/ In("iqr", method) THEN "cap"
            ELSE IF In("remove", method) THEN "remove"
            ELSE IF In("log", method) THEN "log"
            ELSE method
      [] issue_type = "skewness" ->
            IF In("log", method) THEN "log"
            ELSE IF In("sqrt", method) \/ In("square root", method) THEN "sqrt"
            ELSE IF In("box", method) \/ In("cox", method) THEN "box_cox"
            ELSE method
      [] issue_type = "high_cardinality" ->
            IF In("group", method) \/ In("rare", method) THEN "group_rare"
            ELSE IF In("target", method) THEN "target_encoding"
            ELSE IF In("remove", method) THEN "remove"
            ELSE method
      [] issue_type = "categorical_inconsistencies" ->
            IF In("normalize", method) \/ In("naming", method) THEN "normalize"
            ELSE IF In("label", method) THEN "label_encode"
            ELSE IF In("one hot", method) \/ In("onehot", method) THEN "one_hot"
            ELSE method
      [] issue_type = "inconsistent_types" -> "convert"
      [] issue_type = "constant_values" -> "remove"
      [] issue_type = "correlated_features" ->
            IF In("pca", method) THEN "pca" ELSE "remove"
      [] issue_type = "wrong_date_format" ->
            IF In("extract", method) \/ In("component", method)
            THEN "extract_components" ELSE "standardize"
      [] issue_type = "noisy_text" ->
            IF In("lowercase", method) THEN "lowercase"
            ELSE IF In("punctuation", method) THEN "remove_punctuation"
            ELSE IF In("stopword", method) THEN "remove_stopwords"
            ELSE method
      [] issue_type = "imbalanced_data" ->
            IF In("smote", method) THEN "smote"
            ELSE IF In("undersample", method) THEN "undersample"
            ELSE IF In("oversample", method) THEN "oversample"
            ELSE method
      [] OTHER -> method

\* ------------------------------------------------------------------------
\* ActionExecutor: the routines.  A routine that loops over `columns` is given
\* by its loop body (one column); ForColumns runs the body over the first k
\* columns of the list, k = Len(columns) being the whole routine.
\* ------------------------------------------------------------------------
ForColumns(Body(_, _, _), df, columns, method, k) ==
    LET f[i \in 0..k] == IF i = 0 THEN df ELSE Body(f[i - 1], columns[i], method)
    IN  f[k]

\* df[col].astype(str): a NaN cell becomes the string "nan"
AsTypeStr(c) ==
    [ c EXCEPT !.dtype = "obj", !.nulls = FALSE, !.nanstr = c.nanstr \/ c.nulls ]

\* _handle_missing_values, loop body (the routine works on df.copy())
\* variant: the method is not adjusted to the column's type
actual_method_kept(method, c) == method

\* mean and median become mode on a non-numeric column
actual_method(method, c) ==
    IF method \in { "mean", "median" } /\ ~ IsNumeric(c) THEN "mode" ELSE method

\* fillna with the mean, the median or mode()[0]: a column without a non-null
\* cell (uniq = 0) has a NaN mean and median and an empty mode(), and keeps
\* its null cells
MissingValuesBody(df, col, method) ==
    IF ~ HasCol(df, col) THEN df
    ELSE LET c == ColOf(df, col)
             m == actual_method(method, c)
             filled == IF c.uniq > 0 THEN SetCol(df, [ c EXCEPT !.nulls = FALSE ]) ELSE df
         IN  IF ~ c.nulls THEN df
             ELSE IF m \in { "mean", "median" }
                  THEN IF IsNumeric(c) THEN filled ELSE df
                  ELSE IF m = "mode" THEN filled
                  ELSE df

\* variant: the routine returns at the first absent column instead of
\* continuing with the next
_handle_missing_values_return(df, columns, method) ==
    LET absent == { i \in DOMAIN columns : ~ HasCol(df, columns[i]) }
        stop == IF absent = {} THEN Len(columns)
                ELSE (CHOOSE i \in absent : \A j \in absent : i <= j) - 1
    IN  ForColumns(MissingValuesBody, df, columns, method, stop)

_handle_missing_values(df, columns, method) ==
    ForColumns(MissingValuesBody, df, columns, method, Len(columns))

\* _handle_duplicates
_handle_duplicates(df, method) ==
    IF method = "remove" THEN [ df EXCEPT !.dups = FALSE ] ELSE df

\* _handle_outliers, loop body
OutliersBody(df, col, method) ==
    IF ~ HasCol(df, col) THEN df
    ELSE LET c == ColOf(df, col)
         IN  IF ~ IsNumeric(c) THEN df
             ELSE IF method \in { "remove", "cap" }
                  THEN IF c.out > 0
                       THEN SetCol(df, [ c EXCEPT !.out = c.out - 1,
                                                  !.shape = ClipShape[c.shape] ])
                       ELSE df
             ELSE IF method = "log_transform"
                  THEN SetCol(df, [ c EXCEPT !.shape = LogShape[c.shape],
                                             !.xf = c.xf + 1 ])
             ELSE df

_handle_outliers(df, columns, method) ==
    ForColumns(OutliersBody, df, columns, method, Len(columns))

\* _handle_categorical, loop body
CategoricalBody(df, col, method) ==
    IF ~ HasCol(df, col) THEN df
    ELSE LET c == ColOf(df, col)
         IN  IF method = "normalize"
             THEN SetCol(df, [ c EXCEPT !.dtype = "obj", !.casedup = FALSE ])
             ELSE df

_handle_categorical(df, columns, method) ==
    ForColumns(CategoricalBody, df, columns, method, Len(columns))

\* _handle_dates, loop body ("dt" is datetime64: neither number nor object)
DatesBody(df, col, method) ==
    IF ~ HasCol(df, col) THEN df
    ELSE LET c == ColOf(df, col)
         IN  IF method = "convert"
             THEN SetCol(df, [ c EXCEPT !.dtype = "obj", !.xf = c.xf + 1 ])
             ELSE IF method = "extract"
             THEN SetCol(df, [ c EXCEPT !.dtype = "dt", !.xf = c.xf + 1 ])
             ELSE df

_handle_dates(df, columns, method) ==
    ForColumns(DatesBody, df, columns, method, Len(columns))

\* _handle_text, loop body
TextBody(df, col, method) ==
    IF ~ HasCol(df, col) THEN df
    ELSE LET c == ColOf(df, col)
         IN  IF method = "lowercase" THEN SetCol(df, AsTypeStr(c)) ELSE df

_handle_text(df, columns, method) ==
    ForColumns(TextBody, df, columns, method, Len(columns))

\* the skewness routine's test that the log transform is kept:
\* abs(skew_after_log) >= original_skew * 0.90 restores the original
LogImproves(before, after) ==
    ~ (Skew100[after] * 100 >= Skew100[before] * 90)

\* variant: the log-transformed column stays in the frame
restore_original_skipped(df, original_col, logged_col) == SetCol(df, logged_col)

\* df[col] = original_col, after df[col] = np.log1p(...)
restore_original(df, original_col, logged_col) ==
    SetCol(SetCol(df, logged_col), original_col)

\* _handle_skewness, loop body; `method` is not read by the routine
SkewnessBody(df, col, method) ==
    IF ~ HasCol(df, col) THEN df
    ELSE LET c == ColOf(df, col)
             logged == LogShape[c.shape]
             boxed == BoxCoxShape[logged]
             logged_col == [ c EXCEPT !.shape = logged, !.xf = c.xf + 1 ]
         IN  IF ~ IsNumeric(c) THEN df
             ELSE IF c.uniq < MinUniqueForSkew THEN df
             ELSE IF Range1000[c.shape] < MinRange1000 THEN df
             ELSE IF Range1000[logged] < MinRange1000
                  THEN restore_original(df, c, logged_col)
             ELSE IF ~ LogImproves(c.shape, logged)
                  THEN restore_original(df, c, logged_col)
             ELSE IF Skew100[logged] > BoxCoxTrigger100 /\ boxed # "raise"
                  THEN SetCol(df, [ c EXCEPT !.shape = boxed, !.xf = c.xf + 2 ])
             ELSE SetCol(df, [ c EXCEPT !.shape = logged, !.xf = c.xf + 1 ])

_handle_skewness(df, columns, method) ==
    ForColumns(SkewnessBody, df, columns, method, Len(columns))

\* _remove_columns
_remove_columns(df, columns) == DropCols(df, Range(columns))

\* _handle_high_cardinality, loop body
HighCardinalityBody(df, col, method) ==
    IF ~ HasCol(df, col) THEN df
    ELSE LET c == ColOf(df, col)
         IN  IF method = "group_rare" /\ c.rare
             THEN SetCol(df, [ c EXCEPT !.uniq = HIGH_CARDINALITY_THRESHOLD,
                                        !.rare = FALSE ])
             ELSE df

_handle_high_cardinality(df, columns, method) ==
    ForColumns(HighCardinalityBody, df, columns, method, Len(columns))

\* _handle_correlated_features: columns[:len(columns)//2] are dropped
_handle_correlated_features(df, columns) ==
    IF Len(columns) > 0
    THEN DropCols(df, Range(SubSeq(columns, 1, Len(columns) \div 2)))
    ELSE df

\* _handle_inconsistent_types, loop body; `method` is not read by the routine
InconsistentTypesBody(df, col, method) ==
    IF ~ HasCol(df, col) THEN df
    ELSE LET c == ColOf(df, col)
         IN  IF c.sparse THEN SetCol(df, AsTypeStr(c))
             ELSE IF IsNumeric(c) THEN df
             ELSE IF c.numfrac \in { "most", "all" }
                  THEN SetCol(df, [ c EXCEPT
                           !.dtype = "num",
                           !.nulls = c.nulls \/ c.nanstr \/ c.numfrac # "all",
                           !.nanstr = FALSE,
                           !.numfrac = "all" ])
             ELSE SetCol(df, AsTypeStr(c))

_handle_inconsistent_types(df, columns) ==
    ForColumns(InconsistentTypesBody, df, columns, "convert", Len(columns))

\* _handle_imbalanced_data: the frame is rebuilt from the numeric feature
\* columns and the target; SMOTE raises on NaN features, which the routine
\* catches, returning df
_handle_imbalanced_data(df, target_column, method) ==
    IF ~ HasCol(df, target_column) THEN df
    ELSE IF method \notin { "smote", "oversample", "undersample" } THEN df
    ELSE IF method = "smote"
            /\ \E i \in DOMAIN df.cols :
                  df.cols[i].name # target_column /\ df.cols[i].nulls
         THEN df
    ELSE LET t == ColOf(df, target_column)
             features == SelectSeq(df.cols,
                           LAMBDA c : c.name # target_column /\ IsNumeric(c))
         IN  [ df EXCEPT
                 !.cols = Append(features, [ t EXCEPT !.imbal = FALSE, !.nulls = FALSE ]),
                 !.dups = df.dups \/ method = "oversample",
                 !.resampled = TRUE ]

\* ------------------------------------------------------------------------
\* ActionExecutor: dispatch
\* ------------------------------------------------------------------------
\* _apply_action raises before any routine runs: action.parameters.get(...)
\* on parameters = None (imbalanced_data), and parameters.get(...) inside the
\* "convert" / "extract" branches of _handle_dates
ActionRaises(df, action) ==
    LET method == _normalize_method_name(action.method, action.issue_type)
    IN  /\ action.parameters = "none"
        /\ \/ action.issue_type = "imbalanced_data"
           \/ /\ action.issue_type = "wrong_date_format"
              /\ method \in { "convert", "extract" }
              /\ \E i \in DOMAIN action.columns : HasCol(df, action.columns[i])

\* _apply_action(df, action), when it returns
_apply_action(df, action) ==
    LET issue_type == action.issue_type
        columns == action.columns
        method == _normalize_method_name(action.method, issue_type)
    IN  CASE issue_type = "missing_values" -> _handle_missing_values(df, columns, method)
          [] issue_type = "duplicates" -> _handle_duplicates(df, method)
          [] issue_type = "outliers" -> _handle_outliers(df, columns, method)
          [] issue_type = "categorical_inconsistencies" ->
                _handle_categorical(df, columns, method)
          [] issue_type = "wrong_date_format" -> _handle_dates(df, columns, method)
          [] issue_type = "noisy_text" -> _handle_text(df, columns, method)
          [] issue_type = "constant_values" -> _remove_columns(df, columns)
          [] issue_type = "skewness" -> _handle_skewness(df, columns, method)
          [] issue_type = "high_cardinality" ->
                _handle_high_cardinality(df, columns, method)
          [] issue_type = "correlated_features" ->
                _handle_correlated_features(df, columns)
          [] issue_type = "inconsistent_types" ->
                _handle_inconsistent_types(df, columns)
          [] issue_type = "imbalanced_data" ->
                IF Len(columns) = 0 THEN df
                ELSE _handle_imbalanced_data(df, columns[1], method)
          [] OTHER -> df

\* the method names the routine of a kind has a branch for; all of Methods
\* for a routine that does not read its method, none for a kind that has no
\* branch in _apply_action
RoutineMethods(issue_type) ==
    CASE issue_type = "missing_values" ->
            { "mean", "median", "mode", "forward_fill", "backward_fill", "drop" }
      [] issue_type = "duplicates" -> { "remove" }
      [] issue_type = "outliers" -> { "remove", "cap", "log_transform" }
      [] issue_type = "categorical_inconsistencies" ->
            { "normalize", "label_encode", "one_hot" }
      [] issue_type = "wrong_date_format" -> { "convert", "extract" }
      [] issue_type = "noisy_text" ->
            { "lowercase", "remove_punctuation", "remove_stopwords" }
      [] issue_type = "high_cardinality" -> { "group_rare" }
      [] issue_type = "imbalanced_data" -> { "smote", "oversample", "undersample" }
      [] issue_type \in { "constant_values", "skewness", "correlated_features",
                          "inconsistent_types" } -> Methods
      [] OTHER -> { }

\* The caller's df when a routine raises after it handled the first k columns:
\* the routines that assign df[col] on the frame they were given have changed
\* it; the others work on a copy or rebind df
PartlyApplied(df, action, k) ==
    LET issue_type == action.issue_type
        columns == action.columns
        method == _normalize_method_name(action.method, issue_type)
    IN  CASE issue_type = "outliers" /\ method # "remove" ->
                ForColumns(OutliersBody, df, columns, method, k)
          [] issue_type = "categorical_inconsistencies" ->
                ForColumns(CategoricalBody, df, columns, method, k)
          [] issue_type = "wrong_date_format" ->
                ForColumns(DatesBody, df, columns, method, k)
          [] issue_type = "noisy_text" ->
                ForColumns(TextBody, df, columns, method, k)
          [] issue_type = "skewness" ->
                ForColumns(SkewnessBody, df, columns, method, k)
          [] issue_type = "high_cardinality" ->
                ForColumns(HighCardinalityBody, df, columns, method, k)
          [] issue_type = "inconsistent_types" ->
                ForColumns(InconsistentTypesBody, df, columns, method, k)
          [] OTHER -> df

\* ------------------------------------------------------------------------
\* File store (file_handler.py) and FailureMemory files
\* ------------------------------------------------------------------------
FileIds == { "f0", "f1" }

\* _load_dataframe of a CSV written by to_csv(na_rep=''): "nan" is one of the
\* na_values, so a "nan" string is read as NaN; a column whose every value
\* parses as a number is read as a numeric column; datetimes are read as text
ReadCsvCol(c) ==
    LET nulls == c.nulls \/ c.nanstr
    IN  [ c EXCEPT !.nulls = nulls,
                   !.nanstr = FALSE,
                   !.dtype = IF c.dtype = "obj" /\ c.numfrac = "all" THEN "num"
                             ELSE IF c.dtype = "dt" THEN "obj"
                             ELSE c.dtype ]

ReadCsv(t) == [ t EXCEPT !.cols = [ i \in DOMAIN t.cols |-> ReadCsvCol(t.cols[i]) ] ]

\* pd.read_csv of a file without columns raises EmptyDataError
Unreadable(t) == t.exists /\ t.cols = << >>

\* ------------------------------------------------------------------------
\* State
\* ------------------------------------------------------------------------
VARIABLES
    uploaded,      \* uploads/<file_id>.csv as _load_dataframe reads it
    processed,     \* temp/<file_id>_processed.csv as written by to_csv
    metadata,      \* temp/metadata/<file_id>_failed_columns.json ({} if absent)
    pc,            \* position of the run in preprocess_dataset / fix_all_issues
    op,            \* "preprocess" or "auto_fix"
    file_id,       \* the run's dataset identifier
    df,            \* the run's DataFrame
    failed_skewness_columns,   \* the run's local set
    iteration,     \* fix_all_issues: iteration
    issues,        \* fix_all_issues: result of the cycle's detection pass
    actions,       \* the list the for loop runs over
    next_action,   \* position of the for loop in `actions`
    applied_actions,   \* the action log
    final_issues,  \* result of the detection pass after the save
    exit,          \* how fix_all_issues left its while loop
    passes,        \* history: calls of _analyze_dataframe in the run
    last,          \* history: the latest step of the for loop over actions
    loaded,        \* history: the set _load_failed_columns returned
    prev,          \* history: op and exit of the run that finished just before
    runs,          \* runs started so far
    faults,        \* library exceptions raised so far
    crashes,       \* process restarts so far
    deletes,       \* delete_file calls so far
    written,       \* history: the files the run has written so far
    other          \* the variables of a second request, while this one runs

vars == << uploaded, processed, metadata, pc, op, file_id, df,
           failed_skewness_columns, iteration, issues, actions, next_action,
           applied_actions, final_issues, exit, passes, last, loaded,
           prev, runs, faults, crashes, deletes, written, other >>

\* ------------------------------------------------------------------------
\* fix_all_issues: building and ordering the cycle's actions
\* ------------------------------------------------------------------------
\* variant: the failed columns are not filtered out
FixableColumns_unfiltered(columns, failed) == columns

\* [col for col in action.columns if col not in failed_skewness_columns]
FixableColumns(columns, failed) ==
    SelectSeq(columns, LAMBDA col : col \notin failed)

\* the `for issue in issues` loop of fix_all_issues
RECURSIVE BuildActions(_, _)
BuildActions(iss, failed) ==
    IF iss = << >> THEN << >>
    ELSE LET action == _get_recommended_action(Head(iss))
             rest == BuildActions(Tail(iss), failed)
         IN  IF action = NoAction THEN rest
             ELSE IF action.issue_type = "skewness"
                  THEN LET fixable_columns == FixableColumns(action.columns, failed)
                       IN  IF fixable_columns = << >> THEN rest
                           ELSE << [ action EXCEPT !.columns = fixable_columns ] >> \o rest
             ELSE << action >> \o rest

\* variant: every kind has the same key, so the sort keeps detection order
action_order_unsorted(k) == 99

\* action_order.get(a.issue_type, 99)
action_order(k) ==
    CASE k = "duplicates"                  -> 1
      [] k = "constant_values"             -> 2
      [] k = "correlated_features"         -> 3
      [] k = "high_cardinality"            -> 4
      [] k = "categorical_inconsistencies" -> 5
      [] k = "inconsistent_types"          -> 6
      [] k = "outliers"                    -> 7
      [] k = "skewness"                    -> 8
      [] k = "noisy_text"                  -> 9
      [] k = "wrong_date_format"           -> 10
      [] k = "missing_values"              -> 11
      [] OTHER                             -> 99

\* actions.sort(key=...): a stable sort
RECURSIVE SortActions(_)
SortActions(as) ==
    IF as = << >> THEN << >>
    ELSE LET sorted == SortActions(Tail(as))
             a == Head(as)
             before == SelectSeq(sorted,
                         LAMBDA x : action_order(x.issue_type) < action_order(a.issue_type))
             after == SelectSeq(sorted,
                         LAMBDA x : ~ (action_order(x.issue_type) < action_order(a.issue_type)))
         IN  before \o << a >> \o after

\* variant: the bound compared with <=, one cycle too many
LoopCondition_inclusive(it) == it <= max_iterations

\* while iteration < max_iterations
LoopCondition(it) == it < max_iterations

\* ------------------------------------------------------------------------
\* The body of `for action in actions` (shared by preprocess_dataset, lines
\* 61-101, and fix_all_issues, lines 838-881)
\* ------------------------------------------------------------------------
\* an entry of applied_actions; `error` says whether the entry carries the
\* "error" key, which the except clause adds
LogEntry(it, action, method, status) ==
    [ iteration |-> it, issue_type |-> action.issue_type,
      columns |-> action.columns, method |-> method, status |-> status,
      error |-> (status = "failed") ]

\* df.equals(df_before)
Unchanged(after, before) == after = before

\* variant: the set is replaced by the action's columns instead of updated
FailedAfter_replaced(failed, columns) == Range(columns)

\* failed_skewness_columns after .update(action.columns): the value that
\* _save_failed_columns writes
FailedAfter(failed, columns) == failed \cup Range(columns)

\* variant: the comparison with df_before is left out
ReturnedStatus_unchecked(action, ineffective) == "success"

\* what is logged for an action whose _apply_action call returned
ReturnedStatus(action, ineffective) ==
    IF action.issue_type = "skewness" /\ ineffective THEN "removed" ELSE "success"

\* The step for an action whose _apply_action call returned.
\* Result: the new df, the new local set, whether the metadata file is
\* written, and the log entry.
Returned(d, failed, action, it) ==
    LET after == _apply_action(d, action)
        status == ReturnedStatus(action, Unchanged(after, d))
    IN  IF status = "removed"
        THEN [ df |-> DropCols(after, Range(action.columns)),
               failed |-> FailedAfter(failed, action.columns),
               wrote |-> TRUE,
               entry |-> LogEntry(it, action, "remove_column", "removed") ]
        ELSE [ df |-> after, failed |-> failed, wrote |-> FALSE,
               entry |-> LogEntry(it, action, action.method, "success") ]

\* The step for an action whose _apply_action call raised after the routine
\* handled k columns
Raised(d, failed, action, it, k) ==
    [ df |-> PartlyApplied(d, action, k), failed |-> failed, wrote |-> FALSE,
      entry |-> LogEntry(it, action, action.method, "failed") ]

\* variant: an exception leaves the loop
NextPosition_abort(i, raised, n) == IF raised THEN n + 1 ELSE i + 1

\* the for loop after a step at position i: the except clause does not leave
\* the loop
NextPosition(i, raised, n) == i + 1

\* history record of one step of the loop over actions: the action as handed
\* to _apply_action (or as skipped), the frame and the local set before
Step(action, before, called, raised, failed) ==
    [ action |-> action, before |-> before, called |-> called, raised |-> raised,
      failed_before |-> failed ]

NoStep == Step(NoAction, NoTable, FALSE, FALSE, {})

\* ------------------------------------------------------------------------
\* Inputs: the uploaded datasets and the action lists callers send
\* ------------------------------------------------------------------------
Num(n, shape) == [ Col(n) EXCEPT !.shape = shape ]

ColumnA ==
    { Num("a", "sym"),
      [ Num("a", "right") EXCEPT !.nulls = TRUE ],
      Num("a", "left"),
      Num("a", "heavy"),
      Num("a", "stub"),
      Num("a", "narrow"),
      Num("a", "tiny"),
      [ Num("a", "spike") EXCEPT !.out = 1 ],
      [ Num("a", "sym") EXCEPT !.out = 2 ],
      [ Num("a", "heavy") EXCEPT !.uniq = 3 ],
      [ Num("a", "sym") EXCEPT !.uniq = 1 ] }

ColumnB ==
    { [ Num("b", "sym") EXCEPT !.nulls = TRUE ],
      Num("b", "left"),
      Num("b", "right") }

ColumnT ==
    { TextCol("t"),
      [ TextCol("t") EXCEPT !.casedup = TRUE, !.nulls = TRUE ],
      [ TextCol("t") EXCEPT !.imbal = TRUE, !.uniq = 2 ],
      [ TextCol("t") EXCEPT !.noisy = TRUE, !.nulls = TRUE ],
      [ TextCol("t") EXCEPT !.datelike = TRUE ],
      [ TextCol("t") EXCEPT !.numfrac = "most", !.shape = "right" ],
      [ TextCol("t") EXCEPT !.numfrac = "some", !.sparse = TRUE, !.nulls = TRUE ],
      [ TextCol("t") EXCEPT !.uniq = 60, !.rare = TRUE ],
      [ TextCol("t") EXCEPT !.uniq = 60, !.sparse = TRUE ] }

\* the profiles of "a" in the datasets of two numeric columns
ColumnA2 == { c \in ColumnA : c.shape \in { "sym", "right", "heavy" } }

\* the uploaded datasets; a constant column has no correlation with another;
\* the last table has a column a without a non-null cell
InputTables ==
         { MkTable(<< a >>, d, {}) : a \in ColumnA, d \in BOOLEAN }
    \cup { MkTable(<< a, b >>, FALSE, {}) : a \in ColumnA2, b \in ColumnB }
    \cup { MkTable(<< a, b >>, FALSE, { { "a", "b" } }) :
             a \in { c \in ColumnA2 : c.uniq > 1 /\ c.out = 0 }, b \in ColumnB }
    \cup { MkTable(<< Num("a", "sym"), t >>, FALSE, {}) : t \in ColumnT }
    \cup { MkTable(<< Num("a", "left"), t >>, FALSE, {}) : t \in { c \in ColumnT : c.imbal } }
    \cup { MkTable(<< [ Num("a", "steep") EXCEPT !.nulls = TRUE ], Num("b", "left") >>,
                   FALSE, {}),
           MkTable(<< [ Num("a", "sym") EXCEPT !.nulls = TRUE, !.uniq = 0 ],
                      [ Num("b", "sym") EXCEPT !.nulls = TRUE ] >>,
                   FALSE, {}) }

\* the action lists of the preprocess requests
Batches ==
    { << Action("skewness", << "a", "b" >>, "box_cox", "empty") >>,
      << Action("skewness", << "t", "zz" >>, "log_transform", "empty") >>,
      << Action("skewness", << "a" >>, "log_transform", "empty"),
         Action("skewness", << "b" >>, "log_transform", "empty") >>,
      << Action("imbalanced_data", << "t" >>, "smote", "none"),
         Action("missing_values", << "a", "b", "t" >>, "mean", "empty") >>,
      << Action("invalid_ranges", << "a" >>, "clip", "empty"),
         Action("outliers", << "a" >>, "clip", "empty"),
         Action("outliers", << "a", "b" >>, "log_transform", "empty") >>,
      << Action("imbalanced_data", << "t" >>, "smote", "empty"),
         Action("wrong_date_format", << "t" >>, "convert", "format"),
         Action("constant_values", << "a" >>, "remove", "empty") >> }

\* ------------------------------------------------------------------------
\* Init
\* ------------------------------------------------------------------------
\* the variables of a request that has not started
NoRun ==
    [ pc |-> "idle", op |-> "none", file_id |-> "f1", df |-> NoTable,
      failed_skewness_columns |-> {}, iteration |-> 0, issues |-> << >>,
      actions |-> << >>, next_action |-> 1, applied_actions |-> << >>,
      final_issues |-> << >>, exit |-> "none", passes |-> 0, last |-> NoStep,
      loaded |-> {}, prev |-> [ op |-> "none", exit |-> "none" ], written |-> {} ]

Init ==
    /\ \E t \in InputTables : uploaded = [ f \in FileIds |-> IF f = "f1" THEN t ELSE NoTable ]
    /\ processed = [ f \in FileIds |-> NoTable ]
    /\ metadata = [ f \in FileIds |-> {} ]
    /\ pc = "idle"
    /\ op = "none"
    /\ file_id = "f1"
    /\ df = NoTable
    /\ failed_skewness_columns = {}
    /\ iteration = 0
    /\ issues = << >>
    /\ actions = << >>
    /\ next_action = 1
    /\ applied_actions = << >>
    /\ final_issues = << >>
    /\ exit = "none"
    /\ passes = 0
    /\ last = NoStep
    /\ loaded = {}
    /\ prev = [ op |-> "none", exit |-> "none" ]
    /\ runs = 0
    /\ faults = 0
    /\ crashes = 0
    /\ deletes = 0
    /\ written = {}
    /\ other = NoRun

\* ------------------------------------------------------------------------
\* Loading (FileHandler.load_dataframe, _load_failed_columns)
\* ------------------------------------------------------------------------
Idle == pc \in { "idle", "done", "not_found", "error" }

\* load_dataframe prefers the processed file; "not_found" and "error" stand
\* for FileNotFoundError and for EmptyDataError
LoadOutcome(f) ==
    IF processed[f].exists
    THEN IF Unreadable(processed[f]) THEN "error" ELSE "ok"
    ELSE IF uploaded[f].exists THEN "ok" ELSE "not_found"

load_dataframe(f) ==
    IF processed[f].exists THEN ReadCsv(processed[f]) ELSE uploaded[f]

\* variant: one failure memory for all datasets
_load_failed_columns_shared(f) == UNION { metadata[g] : g \in FileIds }

_load_failed_columns(f) == metadata[f]

\* the part of a run's start that does not depend on the operation
Begin(f, o) ==
    /\ Idle
    /\ op' = o
    /\ file_id' = f
    /\ prev' = IF pc = "done" /\ f = file_id THEN [ op |-> op, exit |-> exit ]
               ELSE [ op |-> "none", exit |-> "none" ]
    /\ iteration' = 0
    /\ issues' = << >>
    /\ next_action' = 1
    /\ applied_actions' = << >>
    /\ final_issues' = << >>
    /\ exit' = "none"
    /\ passes' = 0
    /\ last' = NoStep
    /\ written' = {}
    /\ UNCHANGED << processed, metadata, faults, crashes, other >>

\* a run that fails while loading: nothing is written
LoadFails(f) ==
    /\ LoadOutcome(f) # "ok"
    /\ pc' = LoadOutcome(f)
    /\ df' = NoTable
    /\ failed_skewness_columns' = {}
    /\ loaded' = {}
    /\ actions' = << >>

LoadSucceeds(f) ==
    /\ LoadOutcome(f) = "ok"
    /\ df' = load_dataframe(f)
    /\ failed_skewness_columns' = _load_failed_columns(f)
    /\ loaded' = _load_failed_columns(f)

\* ------------------------------------------------------------------------
\* One step of `for action in actions`: `action` is actions[next_action] with
\* the columns it is applied to; r is the step's result (Returned or Raised)
\* ------------------------------------------------------------------------
Advance(raised, next_pc) ==
    LET i == NextPosition(next_action, raised, Len(actions))
    IN  /\ next_action' = i
        /\ pc' = IF i > Len(actions) THEN next_pc ELSE pc

Commit(r, raised, next_pc) ==
    /\ df' = r.df
    /\ failed_skewness_columns' = r.failed
    /\ metadata' = IF r.wrote THEN [ metadata EXCEPT ![file_id] = r.failed ]
                   ELSE metadata
    /\ applied_actions' = Append(applied_actions, r.entry)
    /\ written' = IF r.wrote THEN written \cup { "metadata" } ELSE written
    /\ Advance(raised, next_pc)

\* the try body runs to its end, or _apply_action raises: for the reason the
\* code shows (ActionRaises), or inside a library call of the routine after
\* k columns
TryAction(action, it, next_pc) ==
    \/ /\ ~ ActionRaises(df, action)
       /\ Commit(Returned(df, failed_skewness_columns, action, it), FALSE, next_pc)
       /\ last' = Step(action, df, TRUE, FALSE, failed_skewness_columns)
       /\ faults' = faults
    \/ /\ ActionRaises(df, action)
       /\ Commit(Raised(df, failed_skewness_columns, action, it, 0), TRUE, next_pc)
       /\ last' = Step(action, df, TRUE, TRUE, failed_skewness_columns)
       /\ faults' = faults
    \/ /\ ~ ActionRaises(df, action)
       /\ faults < MaxFaults
       /\ \E k \in 0..Len(action.columns) :
             Commit(Raised(df, failed_skewness_columns, action, it, k), TRUE, next_pc)
       /\ last' = Step(action, df, TRUE, TRUE, failed_skewness_columns)
       /\ faults' = faults + 1

\* ------------------------------------------------------------------------
\* fix_all_issues (auto_fix)
\* ------------------------------------------------------------------------
FixAllStart(f) ==
    /\ Begin(f, "auto_fix")
    /\ runs < MaxRuns
    /\ runs' = runs + 1
    /\ UNCHANGED << uploaded, deletes >>
    /\ \/ LoadFails(f)
       \/ /\ LoadSucceeds(f)
          /\ actions' = << >>
          /\ pc' = "fx_loop"

\* one pass through the head of the while loop: detection, recommendation,
\* ordering
FixAllScan ==
    /\ pc = "fx_loop"
    /\ LoopCondition(iteration)
    /\ iteration' = iteration + 1
    /\ passes' = passes + 1
    /\ \E order \in Orderings(CorrelatedNames(df)) :
          issues' = _analyze_dataframe(df, failed_skewness_columns, order)
    /\ actions' = SortActions(BuildActions(issues', failed_skewness_columns))
    /\ exit' = IF issues' = << >> THEN "no_issues"
               ELSE IF actions' = << >> THEN "no_actions"
               ELSE "none"
    /\ pc' = IF issues' = << >> \/ actions' = << >> THEN "fx_save" ELSE "fx_apply"
    /\ next_action' = 1
    /\ UNCHANGED << uploaded, processed, metadata, op, file_id, df,
                    failed_skewness_columns, applied_actions, final_issues, last,
                    loaded, prev, runs, faults, crashes, deletes, written, other >>

\* the while condition is false
FixAllExhausted ==
    /\ pc = "fx_loop"
    /\ ~ LoopCondition(iteration)
    /\ exit' = "cap"
    /\ pc' = "fx_save"
    /\ UNCHANGED << uploaded, processed, metadata, op, file_id, df,
                    failed_skewness_columns, iteration, issues, actions,
                    next_action, applied_actions, final_issues, passes,
                    last, loaded, prev, runs, faults, crashes, deletes, written, other >>

FixAllApply ==
    /\ pc = "fx_apply"
    /\ next_action <= Len(actions)
    /\ TryAction(actions[next_action], iteration, "fx_loop")
    /\ UNCHANGED << uploaded, processed, op, file_id, iteration, issues, actions,
                    final_issues, exit, passes, loaded, prev, runs,
                    crashes, deletes, other >>

\* save_processed_dataframe writes the file and reads it back, which raises
\* for a frame without columns; then the final detection pass and the return
\* (returned is "done", or the exception raised while the response is built)
Finish(returned) ==
    /\ processed' = [ processed EXCEPT ![file_id] = df ]
    /\ written' = written \cup { "processed" }
    /\ IF df.cols = << >>
       THEN /\ pc' = "error"
            /\ UNCHANGED << passes, final_issues >>
       ELSE /\ pc' = returned
            /\ passes' = passes + 1
            /\ \E order \in Orderings(CorrelatedNames(df)) :
                  final_issues' = _analyze_dataframe(df, failed_skewness_columns, order)
    /\ UNCHANGED << uploaded, metadata, op, file_id, df, failed_skewness_columns,
                    iteration, issues, actions, next_action, applied_actions,
                    exit, last, loaded, prev, runs, faults, crashes, deletes,
                    other >>

FixAllFinish == pc = "fx_save" /\ Finish("done")

\* ------------------------------------------------------------------------
\* preprocess_dataset (preprocess)
\* ------------------------------------------------------------------------
PreprocessStart(f, batch) ==
    /\ Begin(f, "preprocess")
    /\ runs < MaxRuns
    /\ runs' = runs + 1
    /\ UNCHANGED << uploaded, deletes >>
    /\ \/ LoadFails(f)
       \/ /\ LoadSucceeds(f)
          /\ actions' = batch
          /\ pc' = IF batch = << >> THEN "pp_save" ELSE "pp_apply"

PreprocessApply ==
    /\ pc = "pp_apply"
    /\ next_action <= Len(actions)
    /\ LET action == actions[next_action]
           fixable_columns == FixableColumns(action.columns, failed_skewness_columns)
       IN  IF action.issue_type = "skewness" /\ fixable_columns = << >>
           THEN /\ applied_actions' =
                     Append(applied_actions, LogEntry(0, action, action.method, "skipped"))
                /\ Advance(FALSE, "pp_save")
                /\ last' = Step(action, df, FALSE, FALSE, failed_skewness_columns)
                /\ UNCHANGED << df, failed_skewness_columns, metadata, faults,
                                written >>
           ELSE TryAction(IF action.issue_type = "skewness"
                          THEN [ action EXCEPT !.columns = fixable_columns ]
                          ELSE action,
                          0, "pp_save")
    /\ UNCHANGED << uploaded, processed, op, file_id, iteration, issues, actions,
                    final_issues, exit, passes, loaded, prev, runs,
                    crashes, deletes, other >>

\* after the save and the detection pass the response is built from
\* _get_file_path(file_id), which raises FileNotFoundError without an upload
PreprocessFinish ==
    /\ pc = "pp_save"
    /\ Finish(IF uploaded[file_id].exists THEN "done" ELSE "not_found")

\* ------------------------------------------------------------------------
\* FileHandler.delete_file: os.remove of the upload, then of the processed
\* file
\* ------------------------------------------------------------------------
DeleteStart(f) ==
    /\ Begin(f, "delete")
    /\ uploaded[f].exists
    /\ deletes < MaxDeletes
    /\ deletes' = deletes + 1
    /\ UNCHANGED runs
    /\ uploaded' = [ uploaded EXCEPT ![f] = NoTable ]
    /\ pc' = "rm_processed"
    /\ df' = NoTable
    /\ failed_skewness_columns' = {}
    /\ loaded' = {}
    /\ actions' = << >>

DeleteFinish ==
    /\ pc = "rm_processed"
    /\ processed' = [ processed EXCEPT ![file_id] = NoTable ]
    /\ pc' = "idle"
    /\ UNCHANGED << uploaded, metadata, op, file_id, df, failed_skewness_columns,
                    iteration, issues, actions, next_action, applied_actions,
                    final_issues, exit, passes, last, loaded, prev, runs,
                    faults, crashes, deletes, written, other >>

\* ------------------------------------------------------------------------
\* The server process stops in the middle of a run: the files keep what was
\* written so far, the variables of the run are gone
\* ------------------------------------------------------------------------
Crash ==
    /\ ~ Idle
    /\ crashes < MaxCrashes
    /\ crashes' = crashes + 1
    /\ pc' = NoRun.pc
    /\ op' = NoRun.op
    /\ df' = NoRun.df
    /\ failed_skewness_columns' = NoRun.failed_skewness_columns
    /\ iteration' = NoRun.iteration
    /\ issues' = NoRun.issues
    /\ actions' = NoRun.actions
    /\ next_action' = NoRun.next_action
    /\ applied_actions' = NoRun.applied_actions
    /\ final_issues' = NoRun.final_issues
    /\ exit' = NoRun.exit
    /\ passes' = NoRun.passes
    /\ last' = NoRun.last
    /\ loaded' = NoRun.loaded
    /\ prev' = NoRun.prev
    /\ written' = NoRun.written
    /\ UNCHANGED << uploaded, processed, metadata, file_id, runs, faults, deletes,
                    other >>

\* ------------------------------------------------------------------------
\* Specifications
\* ------------------------------------------------------------------------
FixAllStep ==
    \/ FixAllScan
    \/ FixAllExhausted
    \/ FixAllApply
    \/ FixAllFinish

PreprocessStep ==
    \/ PreprocessApply
    \/ PreprocessFinish

Next ==
    \/ \E f \in FileIds : FixAllStart(f)
    \/ \E f \in FileIds, batch \in Batches : PreprocessStart(f, batch)
    \/ FixAllStep
    \/ PreprocessStep
    \/ \E f \in FileIds : DeleteStart(f)
    \/ DeleteFinish
    \/ Crash

Spec == Init /\ [][Next]_vars

\* ------------------------------------------------------------------------
\* Two requests at a time (the routes share one DataPreprocessor; with several
\* server processes their file operations interleave)
\* ------------------------------------------------------------------------
\* the variables of the request that is running
Current ==
    [ pc |-> pc, op |-> op, file_id |-> file_id, df |-> df,
      failed_skewness_columns |-> failed_skewness_columns,
      iteration |-> iteration, issues |-> issues, actions |-> actions,
      next_action |-> next_action, applied_actions |-> applied_actions,
      final_issues |-> final_issues, exit |-> exit, passes |-> passes,
      last |-> last, loaded |-> loaded, prev |-> prev, written |-> written ]

\* the scheduler turns to the other request
Switch ==
    /\ other' = Current
    /\ pc' = other.pc
    /\ op' = other.op
    /\ file_id' = other.file_id
    /\ df' = other.df
    /\ failed_skewness_columns' = other.failed_skewness_columns
    /\ iteration' = other.iteration
    /\ issues' = other.issues
    /\ actions' = other.actions
    /\ next_action' = other.next_action
    /\ applied_actions' = other.applied_actions
    /\ final_issues' = other.final_issues
    /\ exit' = other.exit
    /\ passes' = other.passes
    /\ last' = other.last
    /\ loaded' = other.loaded
    /\ prev' = other.prev
    /\ written' = other.written
    /\ UNCHANGED << uploaded, processed, metadata, runs, faults, crashes, deletes >>

\* the datasets of the two requests: all have a column "a", one has a date
\* column that no cycle repairs, one has two imbalanced class columns
ConcTables ==
         { MkTable(<< a >>, FALSE, {}) : a \in ColumnA }
    \cup { MkTable(<< Num("a", "sym"), [ TextCol("t") EXCEPT !.datelike = TRUE ] >>,
                   FALSE, {}),
           MkTable(<< [ TextCol("a") EXCEPT !.imbal = TRUE, !.uniq = 2 ],
                      [ TextCol("t") EXCEPT !.imbal = TRUE, !.uniq = 3 ] >>,
                   FALSE, {}) }

\* two requests that have not started, with the two uploads on disk
InitRuns(t0, t1) ==
    /\ uploaded = [ f \in FileIds |-> IF f = "f0" THEN t0 ELSE t1 ]
    /\ processed = [ f \in FileIds |-> NoTable ]
    /\ metadata = [ f \in FileIds |-> {} ]
    /\ pc = NoRun.pc
    /\ op = NoRun.op
    /\ file_id = NoRun.file_id
    /\ df = NoRun.df
    /\ failed_skewness_columns = NoRun.failed_skewness_columns
    /\ iteration = NoRun.iteration
    /\ issues = NoRun.issues
    /\ actions = NoRun.actions
    /\ next_action = NoRun.next_action
    /\ applied_actions = NoRun.applied_actions
    /\ final_issues = NoRun.final_issues
    /\ exit = NoRun.exit
    /\ passes = NoRun.passes
    /\ last = NoRun.last
    /\ loaded = NoRun.loaded
    /\ prev = NoRun.prev
    /\ written = NoRun.written
    /\ other = NoRun
    /\ runs = 0
    /\ faults = MaxFaults
    /\ crashes = MaxCrashes
    /\ deletes = MaxDeletes

InitConc == \E t0, t1 \in ConcTables : InitRuns(t0, t1)

\* each request is one run, and the two runs are on different datasets
DifferentDataset(f) ==
    /\ op = "none"
    /\ other.op = "none" \/ other.file_id # f

ConcFixAllStart(f) == DifferentDataset(f) /\ FixAllStart(f)

ConcPreprocessStart(f, batch) == DifferentDataset(f) /\ PreprocessStart(f, batch)

NextConc ==
    \/ \E f \in FileIds : ConcFixAllStart(f)
    \/ \E f \in FileIds, batch \in Batches : ConcPreprocessStart(f, batch)
    \/ FixAllStep
    \/ PreprocessStep
    \/ Switch

ConcSpec == InitConc /\ [][NextConc]_vars

\* Two requests on one dataset, or on two uploads of one dataset: a table
\* with a pair of correlated columns, one with the date column, and one
\* where the log transform of column a is reverted
TwinTables ==
         { MkTable(<< Num("a", "sym"), b >>, FALSE, { { "a", "b" } }) : b \in ColumnB }
    \cup { MkTable(<< Num("a", "sym"), [ TextCol("t") EXCEPT !.datelike = TRUE ] >>,
                   FALSE, {}) }
    \cup { MkTable(<< Num("a", "sym"), b >>, FALSE, {}) : b \in ColumnB }

InitTwin == \E t \in TwinTables : InitRuns(t, t)

\* each request is one run; nothing keeps two runs off one dataset
TwinFixAllStart(f) == op = "none" /\ FixAllStart(f)

TwinPreprocessStart(f, batch) == op = "none" /\ PreprocessStart(f, batch)

NextTwin ==
    \/ \E f \in FileIds : TwinFixAllStart(f)
    \/ \E f \in FileIds, batch \in Batches : TwinPreprocessStart(f, batch)
    \/ FixAllStep
    \/ PreprocessStep
    \/ Switch

TwinSpec == InitTwin /\ [][NextTwin]_vars

\* ------------------------------------------------------------------------
\* A run on its own, as a function of the table and the failure memory it
\* loads (no exception inside a library call)
\* ------------------------------------------------------------------------
RunState(d, failed, meta, log) ==
    [ df |-> d, failed |-> failed, meta |-> meta, log |-> log ]

\* the loop body for one action of fix_all_issues
FixAllOne(s, action, it) ==
    LET r == IF ActionRaises(s.df, action)
             THEN Raised(s.df, s.failed, action, it, 0)
             ELSE Returned(s.df, s.failed, action, it)
    IN  RunState(r.df, r.failed, IF r.wrote THEN r.failed ELSE s.meta,
                 Append(s.log, r.entry))

\* the loop body for one action of preprocess_dataset
PreprocessOne(s, action) ==
    LET fixable_columns == FixableColumns(action.columns, s.failed)
    IN  IF action.issue_type = "skewness" /\ fixable_columns = << >>
        THEN [ s EXCEPT !.log = Append(s.log, LogEntry(0, action, action.method, "skipped")) ]
        ELSE FixAllOne(s, IF action.issue_type = "skewness"
                          THEN [ action EXCEPT !.columns = fixable_columns ]
                          ELSE action, 0)

RECURSIVE FixAllActions(_, _, _)
FixAllActions(s, as, it) ==
    IF as = << >> THEN s
    ELSE FixAllActions(FixAllOne(s, Head(as), it), Tail(as), it)

RECURSIVE PreprocessAlone(_, _)
PreprocessAlone(s, as) ==
    IF as = << >> THEN s
    ELSE PreprocessAlone(PreprocessOne(s, Head(as)), Tail(as))

RECURSIVE FixAllAlone(_, _)
FixAllAlone(s, it) ==
    IF ~ LoopCondition(it) THEN s
    ELSE LET order == CHOOSE o \in Orderings(CorrelatedNames(s.df)) : TRUE
             found == _analyze_dataframe(s.df, s.failed, order)
             built == SortActions(BuildActions(found, s.failed))
         IN  IF found = << >> \/ built = << >> THEN s
             ELSE FixAllAlone(FixAllActions(s, built, it + 1), it + 1)

\* what the run r returns and leaves in its files when nothing else runs
RunAlone(r) ==
    LET s == RunState(uploaded[r.file_id], {}, {}, << >>)
    IN  IF r.op = "auto_fix" THEN FixAllAlone(s, 0) ELSE PreprocessAlone(s, r.actions)

\* Runs of auto_fix in a process that stays alive: a run is one synchronous
\* call, so its next step is always taken
NextAutoFix ==
    \/ \E f \in FileIds : FixAllStart(f)
    \/ FixAllStep

FairSpec == Init /\ [][NextAutoFix]_vars /\ WF_vars(FixAllStep)

\* ------------------------------------------------------------------------
\* The routines on rows and values: a frame is a list of rows <<a, b>> of
\* float cells.  Cells are counted in eighths, so that quantiles and fences
\* of the inputs are whole numbers.
\* ------------------------------------------------------------------------
MaxRows == 5          \* rows of a frame

\* np.nan
NaN == -1000

\* the cells of column a (0, 1 and 4) and of column b
CellsA == { 0, 8, 32, NaN }
CellsB == { 0, NaN }

\* the rows of the frames: b is null only next to a = 0 and a null a
RowValues == (CellsA \X { 0 }) \cup ({ 0, NaN } \X { NaN })

RowFrames == UNION { [ 1..n -> RowValues ] : n \in 0..MaxRows }

\* position of a named column in a row; 0 if the frame has no such column
ColumnIndex(name) == IF name = "a" THEN 1 ELSE IF name = "b" THEN 2 ELSE 0

\* df[col]
Column(rows, c) == [ i \in DOMAIN rows |-> rows[i][c] ]

\* variant: only a row equal to the row just before it is dropped
RECURSIVE drop_duplicates_adjacent(_)
drop_duplicates_adjacent(rows) ==
    IF Len(rows) < 2 THEN rows
    ELSE IF rows[1] = rows[2] THEN drop_duplicates_adjacent(Tail(rows))
    ELSE << rows[1] >> \o drop_duplicates_adjacent(Tail(rows))

\* df.drop_duplicates(): the first row of every group of equal rows is kept,
\* and NaN cells count as equal
RECURSIVE KeepFirst(_, _)
KeepFirst(rows, seen) ==
    IF rows = << >> THEN << >>
    ELSE IF Head(rows) \in seen THEN KeepFirst(Tail(rows), seen)
    ELSE << Head(rows) >> \o KeepFirst(Tail(rows), seen \cup { Head(rows) })

drop_duplicates(rows) == KeepFirst(rows, {})

\* df.duplicated().sum()
duplicated_sum(rows) ==
    Cardinality({ i \in DOMAIN rows : \E j \in 1..(i - 1) : rows[j] = rows[i] })

\* _check_duplicates appends an Issue
DuplicatesReported(rows) == duplicated_sum(rows) > 0

\* _handle_duplicates on rows
HandleDuplicatesRows(rows, method) ==
    IF method = "remove" THEN drop_duplicates(rows) ELSE rows

RECURSIVE SortValues(_)
SortValues(vs) ==
    IF vs = << >> THEN << >>
    ELSE LET sorted == SortValues(Tail(vs))
             v == Head(vs)
         IN  SelectSeq(sorted, LAMBDA x : x <= v) \o << v >>
                \o SelectSeq(sorted, LAMBDA x : x > v)

\* Series.quantile(k / 4): linear interpolation between the neighbours of
\* position (k / 4) * (n - 1) among the sorted non-null values
quantile(col, k) ==
    LET vs == SortValues(SelectSeq(col, LAMBDA v : v # NaN))
        n == Len(vs)
        p == k * (n - 1)
        i == p \div 4
        fraction == p % 4
    IN  IF n = 0 THEN NaN
        ELSE IF fraction = 0 THEN vs[i + 1]
        ELSE vs[i + 1] + (fraction * (vs[i + 2] - vs[i + 1])) \div 4

\* Q1 - 1.5 * IQR and Q3 + 1.5 * IQR
lower_bound(col) ==
    quantile(col, 1) - (3 * (quantile(col, 3) - quantile(col, 1))) \div 2

upper_bound(col) ==
    quantile(col, 3) + (3 * (quantile(col, 3) - quantile(col, 1))) \div 2

\* 4 * Series.quantile(k / 4), for values that are not multiples of four
quantile4(col, k) ==
    LET vs == SortValues(SelectSeq(col, LAMBDA v : v # NaN))
        n == Len(vs)
        p == k * (n - 1)
        i == p \div 4
        fraction == p % 4
    IN  IF fraction = 0 THEN 4 * vs[i + 1]
        ELSE 4 * vs[i + 1] + fraction * (vs[i + 2] - vs[i + 1])

\* _check_outliers for one column: the column gets an entry in outlier_cols.
\* Both sides of the comparisons with the fences are multiplied by 8.
outlier_cols(col) ==
    LET notna == SelectSeq(col, LAMBDA v : v # NaN)
        Q1 == quantile4(col, 1)
        Q3 == quantile4(col, 3)
        IQR == Q3 - Q1
    IN  /\ Len(notna) >= 4
        /\ IQR # 0
        /\ \E i \in DOMAIN notna :
              \/ 8 * notna[i] < 2 * Q1 - 3 * IQR
              \/ 8 * notna[i] > 2 * Q3 + 3 * IQR

\* variant: values are clipped from above only
clip_upper(v, lower, upper) ==
    IF v = NaN THEN NaN ELSE IF v > upper THEN upper ELSE v

\* Series.clip(lower=, upper=) for one cell
clip(v, lower, upper) ==
    IF v = NaN THEN NaN
    ELSE IF v < lower THEN lower
    ELSE IF v > upper THEN upper
    ELSE v

\* the "cap" branch of _handle_outliers for one column
CapColumn(rows, c) ==
    LET lower == lower_bound(Column(rows, c))
        upper == upper_bound(Column(rows, c))
    IN  [ i \in DOMAIN rows |-> [ rows[i] EXCEPT ![c] = clip(@, lower, upper) ] ]

\* _handle_outliers(df, columns, "cap") on rows
RECURSIVE HandleOutliersCap(_, _)
HandleOutliersCap(rows, columns) ==
    IF columns = << >> THEN rows
    ELSE IF ColumnIndex(Head(columns)) = 0 THEN HandleOutliersCap(rows, Tail(columns))
    ELSE HandleOutliersCap(CapColumn(rows, ColumnIndex(Head(columns))), Tail(columns))

\* the column lists of the cap actions
CapColumnLists == { << "a" >>, << "a", "b" >>, << "zz", "a" >> }

InitRows ==
    /\ df \in RowFrames
    /\ uploaded = [ f \in FileIds |-> NoTable ]
    /\ processed = [ f \in FileIds |-> NoTable ]
    /\ metadata = [ f \in FileIds |-> {} ]
    /\ pc = NoRun.pc
    /\ op = NoRun.op
    /\ file_id = NoRun.file_id
    /\ failed_skewness_columns = NoRun.failed_skewness_columns
    /\ iteration = NoRun.iteration
    /\ issues = NoRun.issues
    /\ actions = NoRun.actions
    /\ next_action = NoRun.next_action
    /\ applied_actions = NoRun.applied_actions
    /\ final_issues = NoRun.final_issues
    /\ exit = NoRun.exit
    /\ passes = NoRun.passes
    /\ last = NoRun.last
    /\ loaded = NoRun.loaded
    /\ prev = NoRun.prev
    /\ written = NoRun.written
    /\ other = NoRun
    /\ runs = 0
    /\ faults = 0
    /\ crashes = 0
    /\ deletes = 0

\* one call of a routine on the frame
RoutineCall(action, result) ==
    /\ pc' = "done"
    /\ last' = Step(action, df, TRUE, FALSE, {})
    /\ df' = result
    /\ UNCHANGED << uploaded, processed, metadata, op, file_id,
                    failed_skewness_columns, iteration, issues, actions,
                    next_action, applied_actions, final_issues, exit, passes,
                    loaded, prev, runs, faults, crashes, deletes, written, other >>

RowsDuplicates ==
    /\ pc = "idle"
    /\ RoutineCall(Action("duplicates", << >>, "remove", "empty"),
                   HandleDuplicatesRows(df, "remove"))

RowsOutliers(columns) ==
    /\ pc = "idle"
    /\ RoutineCall(Action("outliers", columns, "cap", "empty"),
                   HandleOutliersCap(df, columns))

NextRows ==
    \/ RowsDuplicates
    \/ \E columns \in CapColumnLists : RowsOutliers(columns)

RowSpec == InitRows /\ [][NextRows]_vars

\* ------------------------------------------------------------------------
\* The routines on the cells of an object column: a frame is a list of rows
\* <<t>>, a cell is NaN or a string, a string is a sequence of characters.
\* ------------------------------------------------------------------------
\* np.nan in an object column: the one cell that is not a string
np_nan == << "NaN" >>

\* the cells of column t: "Y", "y", "y ", "n", "a!"
TextCells == { np_nan, << "Y" >>, << "y" >>, << "y", " " >>, << "n" >>, << "a", "!" >> }

TextFrames == UNION { [ 1..n -> { << v >> : v \in TextCells } ] : n \in 0..MaxRows }

\* position of a named column in a row of a text frame
TextColumnIndex(name) == IF name = "t" THEN 1 ELSE 0

\* str(x), Series.astype(str) for one cell
astype_str(v) == IF v = np_nan THEN << "n", "a", "n" >> ELSE v

\* str.lower()
lower(s) == [ i \in DOMAIN s |-> IF s[i] = "Y" THEN "y" ELSE s[i] ]

\* str.strip()
RECURSIVE strip(_)
strip(s) ==
    IF s = << >> THEN s
    ELSE IF Head(s) = " " THEN strip(Tail(s))
    ELSE IF s[Len(s)] = " " THEN strip(SubSeq(s, 1, Len(s) - 1))
    ELSE s

\* variant: the values are lower-cased but not trimmed
normalize_lower(v) == lower(astype_str(v))

\* df[col].astype(str).str.lower().str.strip() for one cell
normalize(v) == strip(lower(astype_str(v)))

\* the "normalize" branch of _handle_categorical for one column: the cells
\* under na_mask are set to np_nan again
NormalizeColumn(rows, c) ==
    LET na_mask == [ i \in DOMAIN rows |-> rows[i][c] = np_nan ]
    IN  [ i \in DOMAIN rows |->
            [ rows[i] EXCEPT ![c] = IF na_mask[i] THEN np_nan ELSE normalize(@) ] ]

\* _handle_categorical(df, columns, "normalize") on rows
RECURSIVE HandleCategoricalRows(_, _)
HandleCategoricalRows(rows, columns) ==
    IF columns = << >> THEN rows
    ELSE IF TextColumnIndex(Head(columns)) = 0
    THEN HandleCategoricalRows(rows, Tail(columns))
    ELSE HandleCategoricalRows(NormalizeColumn(rows, TextColumnIndex(Head(columns))),
                               Tail(columns))

\* _check_categorical_issues for one column: the column gets an entry in
\* problematic_cols
problematic_cols(col) ==
    LET unique_values == { col[i] : i \in DOMAIN col } \ { np_nan }
        lower_values == { strip(lower(astype_str(v))) : v \in unique_values }
    IN  /\ Cardinality(unique_values) > 1
        /\ Cardinality(lower_values) < Cardinality(unique_values)

\* the column lists of the actions on a text frame
TextColumnLists == { << "t" >>, << "zz", "t" >> }

InitText ==
    /\ df \in TextFrames
    /\ uploaded = [ f \in FileIds |-> NoTable ]
    /\ processed = [ f \in FileIds |-> NoTable ]
    /\ metadata = [ f \in FileIds |-> {} ]
    /\ pc = NoRun.pc
    /\ op = NoRun.op
    /\ file_id = NoRun.file_id
    /\ failed_skewness_columns = NoRun.failed_skewness_columns
    /\ iteration = NoRun.iteration
    /\ issues = NoRun.issues
    /\ actions = NoRun.actions
    /\ next_action = NoRun.next_action
    /\ applied_actions = NoRun.applied_actions
    /\ final_issues = NoRun.final_issues
    /\ exit = NoRun.exit
    /\ passes = NoRun.passes
    /\ last = NoRun.last
    /\ loaded = NoRun.loaded
    /\ prev = NoRun.prev
    /\ written = NoRun.written
    /\ other = NoRun
    /\ runs = 0
    /\ faults = 0
    /\ crashes = 0
    /\ deletes = 0

TextCategorical(columns) ==
    /\ pc = "idle"
    /\ RoutineCall(Action("categorical_inconsistencies", columns, "normalize", "empty"),
                   HandleCategoricalRows(df, columns))

NextText ==
    \/ \E columns \in TextColumnLists : TextCategorical(columns)

TextSpec == InitText /\ [][NextText]_vars

\* ------------------------------------------------------------------------
\* Properties of fix_all_issues' loop
\* ------------------------------------------------------------------------
InLoop == op = "auto_fix" /\ pc \in { "fx_loop", "fx_apply", "fx_save" }

\* C1, as the specification states it: during a run of auto_fix the detector
\* scans the table at most 5 times in total.
C1_AtMostFivePassesInTotal ==
    op = "auto_fix" => passes <= max_iterations

\* C1, amended: inside the loop of auto_fix the detector scans the table once
\* per cycle and at most 5 times; one more scan follows the save, so a run
\* scans at most 6 times.
C1_FivePassesInLoopPlusFinal ==
    op = "auto_fix" =>
        /\ iteration <= max_iterations
        /\ InLoop => passes = iteration
        /\ passes <= max_iterations + 1
        /\ pc = "done" => passes = iteration + 1

\* a run that used all 5 cycles and then scanned once more
C1_SixPassesReached ==
    op = "auto_fix" /\ pc = "done" /\ exit = "cap" /\ passes = max_iterations + 1

\* C2: every run of auto_fix ends: the cycle counter never exceeds 5, and a
\* run that is in its loop eventually reaches the save-and-return step,
\* whatever its actions did.
C2_AutoFixTerminates ==
    /\ [](op = "auto_fix" => iteration <= max_iterations)
    /\ (InLoop /\ pc # "fx_save") ~> (op = "auto_fix" /\ pc = "fx_save")

\* a run reaches the save after 5 cycles in which an action failed and an
\* action had no effect
C2_SaveReachedAfterFailures ==
    /\ op = "auto_fix" /\ pc = "fx_save" /\ exit = "cap"
    /\ \E i \in DOMAIN applied_actions : applied_actions[i].status = "failed"
    /\ \E i \in DOMAIN applied_actions : applied_actions[i].status = "success"

\* C3, as the specification states it: auto_fix leaves its loop only after a
\* detection pass that reported no issues, or with the cycle counter at 5.
C3_ExitOnlyConvergedOrExhausted ==
    (op = "auto_fix" /\ pc = "fx_save") =>
        issues = << >> \/ iteration = max_iterations

\* C3, amended: auto_fix leaves its loop only after a detection pass that
\* reported no issues, or after one that reported only issues of a kind the
\* recommender has no action for (imbalanced_data), or with the cycle counter
\* at 5; and the exit is labelled accordingly.
C3_ExitConvergedNothingFixableOrExhausted ==
    (op = "auto_fix" /\ pc = "fx_save") =>
        /\ \/ issues = << >>
           \/ \A i \in DOMAIN issues : issues[i].type = "imbalanced_data"
           \/ iteration = max_iterations
        /\ exit = "no_issues" <=> issues = << >>
        /\ exit = "cap" => iteration = max_iterations

\* the loop was left in the first cycle although the pass reported issues
C3_LeftEarlyWithIssues ==
    /\ op = "auto_fix" /\ pc = "fx_save"
    /\ iteration < max_iterations
    /\ issues # << >>
    /\ \A i \in DOMAIN issues : issues[i].type = "imbalanced_data"

\* ------------------------------------------------------------------------
\* Properties of the failure memory
\* ------------------------------------------------------------------------
\* the run is the second of two auto_fix runs on the same dataset, the first
\* of which returned; no routine raised and the process was not restarted
SecondAutoFixRun ==
    /\ op = "auto_fix" /\ prev.op = "auto_fix" /\ pc = "done"
    /\ faults = 0 /\ crashes = 0

\* C4, as the specification states it: a second auto_fix run on the table the
\* first one saved either finds nothing to do and applies no action, or uses
\* all 5 cycles and leaves a strictly larger failure memory.
C4_SecondRunIdleOrLearning ==
    SecondAutoFixRun =>
        \/ exit \in { "no_issues", "no_actions" } /\ applied_actions = << >>
        \/ /\ exit = "cap"
           /\ loaded \subseteq metadata[file_id]
           /\ loaded # metadata[file_id]

\* the columns listed by the skewness issues of a detection result
SkewnessIssueColumns(iss) ==
    UNION { Range(iss[i].affected_columns) :
              i \in { j \in DOMAIN iss : iss[j].type = "skewness" } }

\* nothing has happened since the cycle's detection pass
JustScanned ==
    /\ op = "auto_fix"
    /\ \/ pc = "fx_apply" /\ next_action = 1
       \/ pc = "fx_save" /\ exit \in { "no_issues", "no_actions" }

\* C5: a column in the failure memory is listed by no skewness issue of a
\* later detection pass of a run (in the loop or after the save), and no
\* skewness routine is called on it; a skewness action all of whose columns are
\* in the failure memory is not executed.
C5_FailedColumnsLeftAlone ==
    /\ JustScanned =>
          SkewnessIssueColumns(issues) \cap failed_skewness_columns = {}
    /\ pc = "done" =>
          SkewnessIssueColumns(final_issues)
             \cap (failed_skewness_columns \cup metadata[file_id]) = {}
    /\ last.action.issue_type = "skewness" =>
          /\ last.called => Range(last.action.columns) \cap last.failed_before = {}
          /\ Range(last.action.columns) \subseteq last.failed_before => ~ last.called

\* a preprocess run returned whose failure memory lists a column that the
\* table still has and the detector would flag, and that skipped a skewness
\* action on remembered columns
C5_RememberedColumnSkippedAndUnlisted ==
    /\ op = "preprocess" /\ pc = "done"
    /\ \E n \in loaded : HasCol(df, n) /\ SkewFlagged(ColOf(df, n))
    /\ \E i \in DOMAIN applied_actions :
          /\ applied_actions[i].issue_type = "skewness"
          /\ applied_actions[i].status = "skipped"

\* the latest step called the skewness routine, which returned the table as
\* it was
SkewnessActionIneffective ==
    /\ last.called /\ ~ last.raised
    /\ last.action.issue_type = "skewness"
    /\ _apply_action(last.before, last.action) = last.before

\* C6: after a step whose skewness action left the table identical, every
\* column of the action is absent from the table and present in the local set
\* and in the metadata file, and the step's log entry says "removed".
C6_IneffectiveSkewnessRemoved ==
    SkewnessActionIneffective =>
        /\ Range(last.action.columns) \cap Names(df) = {}
        /\ Range(last.action.columns) \subseteq failed_skewness_columns
        /\ Range(last.action.columns) \subseteq metadata[file_id]
        /\ Last(applied_actions).issue_type = "skewness"
        /\ Last(applied_actions).columns = last.action.columns
        /\ Last(applied_actions).status = "removed"

\* an ineffective skewness action whose column was in the table
C6_ColumnDroppedAndRemembered ==
    /\ SkewnessActionIneffective
    /\ \E n \in Range(last.action.columns) : HasCol(last.before, n)

\* _handle_skewness gets as far as the log transform for column n of table d
TransformAttempted(d, n) ==
    /\ HasCol(d, n)
    /\ IsNumeric(ColOf(d, n))
    /\ ColOf(d, n).uniq >= MinUniqueForSkew
    /\ Range1000[ColOf(d, n).shape] >= MinRange1000

\* C7, as the specification states it: a step adds a column to the failure
\* memory, or drops it as unfixable, only if a transform was attempted on it;
\* absent, non-numeric, few-valued and narrow columns are never added.
C7_OnlyAttemptedColumnsRemembered ==
    (last.called /\ last.action.issue_type = "skewness") =>
        \A n \in Range(last.action.columns) :
            (n \in failed_skewness_columns \ last.failed_before
               \/ (HasCol(last.before, n) /\ ~ HasCol(df, n)))
            => TransformAttempted(last.before, n)

\* C8: within a run the failure memory only grows: every step of the run
\* keeps the local set and the metadata file supersets of their earlier
\* values and of the set the run loaded (a stop of the process ends the run
\* and leaves the metadata file as it was).
C8_FailureMemoryAppendOnly ==
    [][ (~ Idle /\ crashes' = crashes) =>
          /\ failed_skewness_columns \subseteq failed_skewness_columns'
          /\ metadata[file_id] \subseteq metadata'[file_id]
          /\ loaded \subseteq failed_skewness_columns'
          /\ loaded \subseteq metadata'[file_id] ]_vars

\* a run that loaded a non-empty failure memory has written a larger one
C8_WrittenOverLoaded ==
    /\ ~ Idle
    /\ loaded # {}
    /\ metadata[file_id] # loaded

\* ------------------------------------------------------------------------
\* Properties of the action log
\* ------------------------------------------------------------------------
\* the log entries of the list of actions the run is working on
BatchEntries == SelectSeq(applied_actions, LAMBDA e : e.iteration = iteration)

\* the actions of the list that the for loop is done with
ActionsHandled ==
    IF pc \in { "fx_apply", "pp_apply" } THEN next_action - 1 ELSE Len(actions)

\* C9: an action that raises is logged "failed" with its error and stops
\* nothing: every action of the list gets exactly one log entry, in order,
\* also those after a failed one, and a run that returns has saved its table.
C9_FailureIsolated ==
    /\ last.raised =>
          /\ Last(applied_actions).status = "failed"
          /\ Last(applied_actions).error
          /\ Last(applied_actions).issue_type = last.action.issue_type
    /\ pc \in { "fx_loop", "fx_apply", "fx_save", "pp_apply", "pp_save", "done" } =>
          /\ Len(BatchEntries) = ActionsHandled
          /\ \A i \in DOMAIN BatchEntries :
                BatchEntries[i].issue_type = actions[i].issue_type
    /\ pc = "done" => processed[file_id] = df

\* a run returned in which an action failed, for a reason the code shows, and
\* the action after it succeeded
C9_ActionAfterFailedOneSucceeded ==
    /\ pc = "done" /\ faults = 0
    /\ \E i \in DOMAIN applied_actions :
          /\ i < Len(applied_actions)
          /\ applied_actions[i].status = "failed"
          /\ applied_actions[i + 1].status = "success"

\* C10, as the specification states it: no log entry with status "success"
\* is for a kind without a routine or for a method the kind's routine does not
\* support.
C10_NoSuccessForUnsupported ==
    \A i \in DOMAIN applied_actions :
        applied_actions[i].status = "success" =>
            applied_actions[i].method \in RoutineMethods(applied_actions[i].issue_type)

\* ------------------------------------------------------------------------
\* Properties of the routines
\* ------------------------------------------------------------------------
\* the latest action with the names of absent columns taken out
LastActionPresentOnly ==
    [ last.action EXCEPT !.columns =
        SelectSeq(last.action.columns, LAMBDA n : HasCol(last.before, n)) ]

C12_NotFoundWroteNothing ==
    (op \in { "preprocess", "auto_fix" } /\ pc = "not_found") => written = {}

\* C13: auto_fix never automates imbalanced_data: the recommender returns no
\* action for an imbalanced_data Issue, the cycle's actions and the action log
\* of an auto_fix run hold no imbalanced_data entry, and the run's table is
\* resampled only if the table it loaded was.
C13_ImbalancedNeverAutomated ==
    op = "auto_fix" =>
       /\ \A i \in DOMAIN issues :
             issues[i].type = "imbalanced_data" =>
                _get_recommended_action(issues[i]) = NoAction
       /\ \A i \in DOMAIN actions : actions[i].issue_type # "imbalanced_data"
       /\ \A i \in DOMAIN applied_actions :
             applied_actions[i].issue_type # "imbalanced_data"
       /\ last.action.issue_type # "imbalanced_data"
       /\ (pc \in { "fx_loop", "fx_apply", "fx_save" }) =>
             df.resampled = load_dataframe(file_id).resampled
       /\ pc = "done" => processed[file_id].resampled = df.resampled

\* an auto_fix run that handled other actions returned with the
\* imbalanced_data Issue it detected in its last cycle still reported
C13_ImbalancedLeftToTheUser ==
    /\ op = "auto_fix" /\ pc = "done"
    /\ applied_actions # << >>
    /\ \E i \in DOMAIN issues : issues[i].type = "imbalanced_data"
    /\ \E i \in DOMAIN final_issues : final_issues[i].type = "imbalanced_data"
    /\ ~ df.resampled

\* the priority order of the kinds, first to last
PriorityOrder ==
    << "duplicates", "constant_values", "correlated_features", "high_cardinality",
       "categorical_inconsistencies", "inconsistent_types", "outliers", "skewness",
       "noisy_text", "wrong_date_format", "missing_values" >>

Priority(k) == CHOOSE i \in DOMAIN PriorityOrder : PriorityOrder[i] = k

\* C14: within one cycle of auto_fix no action is applied after an action
\* whose kind comes later in the priority order: the cycle's list is in that
\* order, and so are the log entries of one cycle.
C14_AppliedInPriorityOrder ==
    op = "auto_fix" =>
       /\ \A i \in DOMAIN actions :
             actions[i].issue_type \in Range(PriorityOrder)
       /\ \A i, j \in DOMAIN actions :
             i < j => Priority(actions[i].issue_type) <= Priority(actions[j].issue_type)
       /\ \A i, j \in DOMAIN applied_actions :
             (i < j /\ applied_actions[i].iteration = applied_actions[j].iteration) =>
                Priority(applied_actions[i].issue_type)
                   <= Priority(applied_actions[j].issue_type)

\* in one cycle duplicates were removed before the outliers were handled,
\* although the detection pass reports outliers first
C14_DuplicatesBeforeOutliers ==
    /\ op = "auto_fix"
    /\ \E i, j \in DOMAIN applied_actions :
          /\ i < j
          /\ applied_actions[i].iteration = applied_actions[j].iteration
          /\ applied_actions[i].issue_type = "duplicates"
          /\ applied_actions[j].issue_type = "outliers"
    /\ \E i, j \in DOMAIN issues :
          i < j /\ issues[i].type = "outliers" /\ issues[j].type = "duplicates"

\* the table object handed to the latest routine call, as it is after the
\* call: the caller's df when the call raised, and the frame the routine
\* assigned its columns on when it returned
InputTableAfter ==
    IF last.raised THEN df
    ELSE PartlyApplied(last.before, last.action, Len(last.action.columns))

\* C15: no routine modifies the table it receives: after the routine returned
\* or raised, the table it was given holds what it held before the call.
C15_InputTableUnchanged ==
    last.called => InputTableAfter = last.before

\* the request r has returned, and what it returned and left in the files of
\* its dataset is what the run does on its own
ReturnedAsAlone(r) ==
    r.pc = "done" =>
       /\ r.df = RunAlone(r).df
       /\ r.applied_actions = RunAlone(r).log
       /\ r.failed_skewness_columns = RunAlone(r).failed
       /\ metadata[r.file_id] = RunAlone(r).meta
       /\ processed[r.file_id] = r.df

\* C16: two runs on different datasets that interleave do not touch each
\* other's files, and each returns what it returns when it runs alone: a
\* dataset no request was started on has no processed table and no failure
\* memory, and a returned run's table, log, failure memory and processed table
\* are those of the run on its own.
C16_RunsOnDifferentDatasetsIndependent ==
    /\ ReturnedAsAlone(Current)
    /\ ReturnedAsAlone(other)
    /\ \A f \in FileIds :
          (~ (op # "none" /\ file_id = f) /\ ~ (other.op # "none" /\ other.file_id = f))
             => (processed[f] = NoTable /\ metadata[f] = {})

\* both requests have returned, both worked on a column "a", and exactly one
\* of them left a failure memory, written while the other was running
C16_BothReturnedOneRemembered ==
    /\ pc = "done" /\ other.pc = "done"
    /\ file_id # other.file_id
    /\ metadata[file_id] # {} /\ metadata[other.file_id] = {}
    /\ other.applied_actions # << >>
    /\ applied_actions # << >>

\* every name in the affected_columns of the Issues is a column of t
AffectedInTable(iss, t) ==
    \A i \in DOMAIN iss : Range(iss[i].affected_columns) \subseteq Names(t)

\* C17: every name in the affected_columns of an Issue is a column of the
\* table scanned in that detection pass: for the pass of an auto_fix cycle,
\* for the pass after the save of preprocess and auto_fix, and for a pass over
\* a stored dataset with its failure memory excluded (analyze).
C17_AffectedColumnsInScannedTable ==
    /\ JustScanned => AffectedInTable(issues, df)
    /\ pc = "done" => AffectedInTable(final_issues, df)
    /\ \A f \in FileIds :
          LoadOutcome(f) = "ok" =>
             \A order \in Orderings(CorrelatedNames(load_dataframe(f))) :
                AffectedInTable(
                   _analyze_dataframe(load_dataframe(f), metadata[f], order),
                   load_dataframe(f))

\* a pass after some column was removed and some skewness column was filtered
\* out still reports Issues
C17_IssuesAfterRemovalAndFiltering ==
    /\ pc = "done"
    /\ final_issues # << >>
    /\ failed_skewness_columns # {}
    /\ Names(df) # Names(uploaded[file_id])
    /\ uploaded[file_id].exists

\* C18: one detection pass yields at most one Issue per kind, and a cycle of
\* auto_fix has at most one action per kind.
C18_AtMostOneIssuePerKind ==
    /\ \A i, j \in DOMAIN issues : i # j => issues[i].type # issues[j].type
    /\ \A i, j \in DOMAIN final_issues :
          i # j => final_issues[i].type # final_issues[j].type
    /\ op = "auto_fix" =>
          \A i, j \in DOMAIN actions :
             i # j => actions[i].issue_type # actions[j].issue_type

\* C19: after the duplicates "remove" action the row count is the number of
\* distinct rows of the original table, no two rows of the result are equal,
\* and the duplicate detector reports nothing on the result.
C19_DuplicatesRemoved ==
    (pc = "done" /\ last.action.issue_type = "duplicates") =>
       /\ Len(df) = Cardinality(Range(last.before))
       /\ \A i, j \in DOMAIN df : i # j => df[i] # df[j]
       /\ ~ DuplicatesReported(df)

\* rows were dropped, among them a repeated row with a NaN cell that is not
\* next to its first occurrence, and more than one row is left
C19_RepeatedRowsDropped ==
    /\ pc = "done" /\ last.action.issue_type = "duplicates"
    /\ Len(df) > 1
    /\ \E i, j \in DOMAIN last.before :
          /\ i + 1 < j
          /\ last.before[i] = last.before[j]
          /\ last.before[i][2] = NaN
          /\ last.before[i + 1] # last.before[i]

\* C20: after an outliers "cap" action every non-null value of a named
\* column lies within [Q1 - 1.5 * IQR, Q3 + 1.5 * IQR], the quartiles being
\* those of the column before the action.
C20_CappedWithinFences ==
    (pc = "done" /\ last.action.issue_type = "outliers") =>
       \A n \in Range(last.action.columns) :
          ColumnIndex(n) # 0 =>
             \A i \in DOMAIN df :
                df[i][ColumnIndex(n)] # NaN =>
                   /\ lower_bound(Column(last.before, ColumnIndex(n)))
                         <= df[i][ColumnIndex(n)]
                   /\ df[i][ColumnIndex(n)]
                         <= upper_bound(Column(last.before, ColumnIndex(n)))

\* a value above the upper fence and a value below the lower fence of column
\* a were capped, next to a null cell
C20_ValuesCappedOnBothSides ==
    /\ pc = "done" /\ last.action.issue_type = "outliers"
    /\ \E i \in DOMAIN df : df[i][1] < last.before[i][1]
    /\ \E i \in DOMAIN df : df[i][1] > last.before[i][1]

\* C21: after the outliers "cap" action, the outlier detector, which computes
\* Q1, Q3 and IQR again from the capped values, flags none of the capped
\* columns it flagged before.
C21_CapRemovesOutliers ==
    (pc = "done" /\ last.action.issue_type = "outliers") =>
        \A n \in Range(last.action.columns) :
            (ColumnIndex(n) # 0 /\ outlier_cols(Column(last.before, ColumnIndex(n))))
            => ~ outlier_cols(Column(df, ColumnIndex(n)))

\* C22: after the categorical "normalize" action every non-null cell of the
\* column holds the lower-cased, trimmed form of its value (no upper-case
\* letter, no blank at either end), every null cell is still null, the
\* categorical_inconsistencies detector does not flag the column, and
\* "normalize" applied again changes nothing.
C22_NormalizeFoldsAndIsIdempotent ==
    (pc = "done" /\ last.action.issue_type = "categorical_inconsistencies") =>
        /\ Len(df) = Len(last.before)
        /\ \A i \in DOMAIN df :
              /\ (last.before[i][1] = np_nan) <=> (df[i][1] = np_nan)
              /\ df[i][1] # np_nan =>
                    /\ \A k \in DOMAIN df[i][1] : df[i][1][k] # "Y"
                    /\ df[i][1] # << >> =>
                          (df[i][1][1] # " " /\ df[i][1][Len(df[i][1])] # " ")
                    /\ Len(df[i][1]) <= Len(last.before[i][1])
        /\ ~ problematic_cols(Column(df, 1))
        /\ HandleCategoricalRows(df, last.action.columns) = df

\* a flagged column with a null cell, an upper-case value and a value with a
\* trailing blank was normalized
C22_FlaggedColumnNormalized ==
    /\ pc = "done" /\ last.action.issue_type = "categorical_inconsistencies"
    /\ problematic_cols(Column(last.before, 1))
    /\ \E i \in DOMAIN df : df[i][1] = np_nan
    /\ \E i \in DOMAIN df : last.before[i][1] = << "Y" >> /\ df[i][1] = << "y" >>
    /\ \E i \in DOMAIN df : last.before[i][1] = << "y", " " >> /\ df[i][1] = << "y" >>

\* the log transform of the column does not pass the routine's two tests:
\* its range falls below 0.01, or abs(skew) is not at least 10% smaller
LogNotKept(c) ==
    \/ Range1000[LogShape[c.shape]] < 10
    \/ Skew100[LogShape[c.shape]] * 100 >= Skew100[c.shape] * 90

\* C23: a column on which the skewness routine tried the log transform, and
\* whose log transform collapses the range below 0.01 or does not reduce
\* abs(skew) by at least 10%, has after the routine the values it had before:
\* in the frame the routine returns, and in the frame of the run as long as
\* the caller has not removed the column.
C23_RevertedColumnKeepsItsValues ==
    (last.called /\ last.action.issue_type = "skewness") =>
        \A n \in Range(last.action.columns) :
            (HasCol(last.before, n) /\ LogNotKept(ColOf(last.before, n))) =>
                /\ ColOf(_handle_skewness(last.before, last.action.columns,
                                          last.action.method), n)
                      = ColOf(last.before, n)
                /\ HasCol(df, n) => ColOf(df, n) = ColOf(last.before, n)

\* a skewness action reverted one of its columns and transformed another
C23_OneRevertedOneTransformed ==
    /\ last.called /\ last.action.issue_type = "skewness" /\ ~ last.raised
    /\ \E n, m \in Range(last.action.columns) :
          /\ HasCol(last.before, n) /\ HasCol(df, n) /\ HasCol(df, m)
          /\ HasCol(last.before, m)
          /\ IsNumeric(ColOf(last.before, n))
          /\ ColOf(last.before, n).uniq >= 5
          /\ Range1000[ColOf(last.before, n).shape] >= 10
          /\ LogNotKept(ColOf(last.before, n))
          /\ ColOf(df, n) = ColOf(last.before, n)
          /\ ColOf(df, m).xf > ColOf(last.before, m).xf

\* the cycle after cycle k of the run is over
NextCycleOver(k) ==
    \/ iteration > k + 1
    \/ iteration = k + 1 /\ pc \in { "fx_loop", "fx_save", "done" }
    \/ iteration = k /\ pc \in { "fx_save", "done" }

ListedMethods(issue_type) ==
    CASE issue_type = "missing_values" -> { "mean", "mode" }
      [] issue_type = "duplicates" -> { "remove" }
      [] issue_type = "outliers" -> { "cap", "log_transform" }
      [] issue_type = "skewness" -> { "box_cox" }
      [] issue_type = "high_cardinality" -> { "group_rare" }
      [] issue_type = "correlated_features" -> { "remove_correlated" }
      [] issue_type = "inconsistent_types" -> { "convert" }
      [] issue_type = "categorical_inconsistencies" -> { "normalize" }
      [] issue_type = "wrong_date_format" -> { "convert", "extract" }
      [] issue_type = "noisy_text" -> { "lowercase" }
      [] issue_type = "constant_values" -> { "remove" }
      [] OTHER -> { }

\* C25: an action whose method is one the specification lists for its kind
\* reaches, after _normalize_method_name, a branch of the kind's routine.
C25_ListedMethodReachesItsBranch ==
    (last.called /\ last.action.method \in ListedMethods(last.action.issue_type)) =>
        _normalize_method_name(last.action.method, last.action.issue_type)
            \in RoutineMethods(last.action.issue_type)

\* the columns the correlated_features actions of a log removed
RemovedAsCorrelated(log) ==
    UNION { Range(SubSeq(log[i].columns, 1, Len(log[i].columns) \div 2)) :
              i \in { j \in DOMAIN log : log[j].issue_type = "correlated_features" } }

\* C26: two auto_fix runs on equal tables remove the same columns as
\* correlated features.
C26_EqualTablesSameColumnsRemoved ==
    (/\ op = "auto_fix" /\ other.op = "auto_fix"
     /\ pc = "done" /\ other.pc = "done"
     /\ file_id # other.file_id
     /\ uploaded[file_id] = uploaded[other.file_id]) =>
        RemovedAsCorrelated(applied_actions) = RemovedAsCorrelated(other.applied_actions)

\* C27: when two correction runs on one dataset have both finished, however
\* they interleaved, the metadata file holds every column that either run
\* added to its local failure memory.
C27_NoFailureMemoryEntryLost ==
    (/\ op # "none" /\ other.op # "none"
     /\ file_id = other.file_id
     /\ pc = "done" /\ other.pc = "done") =>
        (failed_skewness_columns \ loaded) \cup (other.failed_skewness_columns \ other.loaded)
            \subseteq metadata[file_id]

\* C28: a failed action leaves no partial modification: after a step of the
\* loop whose _apply_action call raised, the table the run carries to the
\* next action is the table as it was before that action.
C28_FailedActionLeavesTableAsBefore ==
    (last.called /\ last.raised) => df = last.before

\* C29: null cells are preserved by the corrections that are not a
\* missing_values fill: after a noisy_text, categorical_inconsistencies or
\* inconsistent_types action whose routine returned, every column that had
\* null cells before the action and is still in the table has them.
C29_NullCellsPreserved ==
    (/\ faults = 0 /\ crashes = 0
     /\ last.called /\ ~ last.raised
     /\ last.action.issue_type \in { "noisy_text", "categorical_inconsistencies",
                                     "inconsistent_types" }) =>
        \A n \in Names(last.before) :
            (ColOf(last.before, n).nulls /\ HasCol(df, n)) => ColOf(df, n).nulls

\* a missing_values action with a filling method has been applied and its
\* routine returned
FillApplied ==
    /\ last.called /\ ~ last.raised
    /\ last.action.issue_type = "missing_values"
    /\ _normalize_method_name(last.action.method, "missing_values")
          \in { "mean", "median", "mode" }

\* C30 as stated: after a missing_values action with method mean, median or
\* mode, every affected column that is in the table has no null cell.
C30_FilledColumnsHaveNoNull ==
    FillApplied =>
        \A n \in Range(last.action.columns) :
            HasCol(df, n) => ~ ColOf(df, n).nulls

\* C30: after a missing_values action with method mean, median or mode,
\* every affected column that is in the table and has a non-null cell has no
\* null cell, and a detection pass over that table does not list it under
\* missing_values.
C30_FilledColumnsWithAValueHaveNoNull ==
    FillApplied =>
        \A n \in Range(last.action.columns) :
            (HasCol(df, n) /\ ColOf(df, n).uniq > 0) =>
                /\ ~ ColOf(df, n).nulls
                /\ \A i \in DOMAIN _check_missing_values(df) :
                       n \notin Range(_check_missing_values(df)[i].affected_columns)

\* mean was asked for a text column with null cells, and the column is filled
C30_MeanOnTextColumnFilled ==
    /\ FillApplied
    /\ last.action.method = "mean"
    /\ \E n \in Range(last.action.columns) :
          /\ HasCol(last.before, n) /\ HasCol(df, n)
          /\ IsObject(ColOf(last.before, n))
          /\ ColOf(last.before, n).nulls
          /\ ~ ColOf(df, n).nulls

====
